---- MODULE Spec2Model ----
(***************************************************************************)
(* Magic Royale (crom-encantaria) - the per-match simulation Room.         *)
(*                                                                         *)
(* A model of GameRoom (server/src/core/game/game-room.ts) with the        *)
(* entity FSM, the combat resolver and the physics kernel it drives.       *)
(*                                                                         *)
(* Units of measure (all values are integers):                             *)
(*   mana      in 1/tickRate of a mana point (one tick of regeneration at  *)
(*             manaRegenRate = 1 is one unit), so 10 mana = 10 * tickRate  *)
(*   time      in milliseconds                                             *)
(*   position  in 1/100 of a map unit                                      *)
(*   attack speed in 1/10 attacks per second                               *)
(***************************************************************************)
EXTENDS Integers, Sequences, FiniteSets, TLC

\* ------------------------------------------------------------------------
\* Bounds of the model
\* ------------------------------------------------------------------------

\* ticks one Room executes over its lifetime
MaxTick == 3

\* units one Room registers over its lifetime
MaxUnits == 2

\* GameRoomConfig.maxDuration, in milliseconds (the default is 180 s)
maxDurationMs == 100

\* GameRoomConfig.manaRegenRate, mana per second (the default is 1)
manaRegenRate == 60

\* Date.now() when the Room is constructed (any value past the longest
\* attack cooldown, 10000 ms, behaves like a real timestamp)
Epoch == 20000

\* ------------------------------------------------------------------------
\* Program constants
\* ------------------------------------------------------------------------

tickRate == 20

maxMana == 10

PLAYER_1_DEPLOY_ZONE_MAX_Y == 15

PLAYER_2_DEPLOY_ZONE_MIN_Y == 25

MAP_HEIGHT == 40

\* tickDuration = 1000 / tickRate
tickDuration == 1000 \div tickRate

\* GameRoomConfig.initialMana values a Room is constructed with
InitialManas == {2, 5}

\* delay between two timer callbacks: on time, or late by one interval
TickDelays == {tickDuration, 2 * tickDuration}

Players == {1, 2}

Opponent(p) == 3 - p

OwnerId(p) == IF p = 1 THEN "player1" ELSE "player2"

Undefined == "undefined"

Null == "null"

\* ------------------------------------------------------------------------
\* Catalog (shared UNITS / ITEMS)
\* ------------------------------------------------------------------------

UNITS ==
  [ knight_base |-> [health |-> 200, damage |-> 25, attackSpeed |-> 10,
                     range |-> 150, aggroRange |-> 800, moveSpeed |-> 200,
                     manaCost |-> 3],
    archer_base |-> [health |-> 120, damage |-> 35, attackSpeed |-> 12,
                     range |-> 600, aggroRange |-> 1000, moveSpeed |-> 250,
                     manaCost |-> 3],
    mage_solar  |-> [health |-> 80, damage |-> 60, attackSpeed |-> 8,
                     range |-> 550, aggroRange |-> 900, moveSpeed |-> 180,
                     manaCost |-> 4] ]

ITEMS ==
  [ sword_flame_t1 |-> [manaWeight |-> 1, health |-> 0, damage |-> 50,
                        attackSpeed |-> -1, range |-> 0, moveSpeed |-> 0],
    longbow_t2     |-> [manaWeight |-> 1, health |-> 0, damage |-> 20,
                        attackSpeed |-> 0, range |-> 200, moveSpeed |-> 0],
    steel_plate_t2 |-> [manaWeight |-> 1, health |-> 100, damage |-> 0,
                        attackSpeed |-> 0, range |-> 0, moveSpeed |-> -30],
    staff_ice_t1   |-> [manaWeight |-> 2, health |-> 0, damage |-> 40,
                        attackSpeed |-> 2, range |-> 0, moveSpeed |-> 0],
    shadow_relic   |-> [manaWeight |-> 2, health |-> -20, damage |-> 30,
                        attackSpeed |-> 0, range |-> 0, moveSpeed |-> 0] ]

\* getUnitById(unitId) is defined (the Map has the key)
HasUnit(unitId) == unitId \in DOMAIN UNITS

\* getItemById(itemId) is defined (the Map has the key)
HasItem(itemId) == itemId \in DOMAIN ITEMS

Max(a, b) == IF a >= b THEN a ELSE b

Min(a, b) == IF a <= b THEN a ELSE b

\* the deck the Session Directory binds to each player slot
mockDeck ==
  << [slotIndex |-> 0, baseUnitId |-> "knight_base", equippedItems |-> <<>>],
     [slotIndex |-> 1, baseUnitId |-> "archer_base", equippedItems |-> <<>>],
     [slotIndex |-> 2, baseUnitId |-> "mage_solar", equippedItems |-> <<>>] >>

\* ------------------------------------------------------------------------
\* Entity & FSM (entity.ts)
\* ------------------------------------------------------------------------

\* a stat that calculateFinalStats does not set reads as undefined
NoValue == -1

\* `${unitId}_${entityCounter}`
EntityId(unitId, n) == unitId \o "_" \o ToString(n)

\* createEntity / the GameEntity constructor
createEntity(id, ownerId, unitId, x, y, stats, radius) ==
  [ id |-> id, ownerId |-> ownerId, unitId |-> unitId,
    position |-> [x |-> x, y |-> y], radius |-> radius, stats |-> stats,
    state |-> "IDLE", targetId |-> Null, targetPosition |-> <<>>,
    lastAttackTime |-> 0, isMoving |-> FALSE,
    moveSpeed |-> stats.moveSpeed, isTower |-> FALSE ]

\* isAlive
isAlive(e) == e.state # "DEAD" /\ e.stats.hp > 0

\* takeDamage that clamps the HP and leaves the state as it is
takeDamageKeepsState(e, amount) ==
  IF e.stats.hp - amount <= 0
  THEN [e EXCEPT !.stats.hp = 0, !.isMoving = FALSE,
                 !.targetId = Null, !.targetPosition = <<>>]
  ELSE [e EXCEPT !.stats.hp = e.stats.hp - amount]

\* takeDamage: the entity after the damage
takeDamage(e, amount) ==
  IF e.stats.hp - amount <= 0
  THEN [e EXCEPT !.stats.hp = 0, !.state = "DEAD", !.isMoving = FALSE,
                 !.targetId = Null, !.targetPosition = <<>>]
  ELSE [e EXCEPT !.stats.hp = e.stats.hp - amount]

\* takeDamage's return value: the entity died
takeDamageKilled(e, amount) == e.stats.hp - amount <= 0

\* canAttack without the cooldown test
canAttackAnytime(e, currentTime) == isAlive(e)

\* canAttack: currentTime - lastAttackTime >= (1 / attackSpeed) * 1000
canAttack(e, currentTime) ==
  /\ isAlive(e)
  /\ (currentTime - e.lastAttackTime) * e.stats.attackSpeed >= 10000

\* setTarget; target is <<>> for null or <<entity>>
setTarget(e, target) ==
  IF target # <<>>
  THEN [e EXCEPT !.targetId = target[1].id,
                 !.targetPosition = <<target[1].position>>,
                 !.state = "MOVING", !.isMoving = TRUE]
  ELSE [e EXCEPT !.targetId = Null, !.targetPosition = <<>>,
                 !.state = "IDLE", !.isMoving = FALSE]

\* updateTargetPosition
updateTargetPosition(e, target) ==
  IF target.id = e.targetId
  THEN [e EXCEPT !.targetPosition = <<target.position>>]
  ELSE e

\* getDistanceSquared
getDistanceSquared(a, b) ==
  (b.x - a.x) * (b.x - a.x) + (b.y - a.y) * (b.y - a.y)

\* isInRange: distance - radius - target.radius <= range, compared on squares
isInRange(e, target) ==
  LET reach == e.stats.range + e.radius + target.radius
  IN  reach >= 0 /\ getDistanceSquared(e.position, target.position) <= reach * reach

\* the FSM switch of updateState
fsmTransition(e, inRange, can) ==
  CASE e.state \in {"IDLE", "MOVING"} ->
         IF inRange THEN [e EXCEPT !.state = "ATTACKING", !.isMoving = FALSE]
                    ELSE [e EXCEPT !.state = "MOVING", !.isMoving = TRUE]
    [] e.state = "ATTACKING" ->
         IF ~inRange THEN [e EXCEPT !.state = "MOVING", !.isMoving = TRUE]
         ELSE IF ~can THEN [e EXCEPT !.state = "COOLDOWN", !.isMoving = FALSE]
         ELSE e
    [] e.state = "COOLDOWN" ->
         IF ~inRange THEN [e EXCEPT !.state = "MOVING", !.isMoving = TRUE]
         ELSE IF can THEN [e EXCEPT !.state = "ATTACKING", !.isMoving = FALSE]
         ELSE e
    [] OTHER -> e

\* updateState without the early return of a dead entity
updateStateOfTheDead(e, target, tickTime) ==
  IF target = <<>> \/ ~isAlive(target[1])
  THEN IF e.state # "IDLE"
       THEN [e EXCEPT !.state = "IDLE", !.isMoving = FALSE,
                      !.targetId = Null, !.targetPosition = <<>>]
       ELSE e
  ELSE LET e1 == updateTargetPosition(e, target[1])
       IN  fsmTransition(e1, isInRange(e1, target[1]), canAttack(e1, tickTime))

\* updateState; target is <<>> for null or <<entity>>
updateState(e, target, tickTime) ==
  IF ~isAlive(e) THEN e
  ELSE IF target = <<>> \/ ~isAlive(target[1])
  THEN IF e.state # "IDLE"
       THEN [e EXCEPT !.state = "IDLE", !.isMoving = FALSE,
                      !.targetId = Null, !.targetPosition = <<>>]
       ELSE e
  ELSE LET e1 == updateTargetPosition(e, target[1])
       IN  fsmTransition(e1, isInRange(e1, target[1]), canAttack(e1, tickTime))

\* recordAttack
recordAttack(e, tickTime) ==
  [e EXCEPT !.lastAttackTime = tickTime, !.state = "COOLDOWN"]

\* toSnapshot
toSnapshot(e) ==
  [ id |-> e.id, ownerId |-> e.ownerId, unitId |-> e.unitId,
    position |-> e.position, hp |-> e.stats.hp, maxHp |-> e.stats.maxHp,
    state |-> e.state, targetId |-> e.targetId ]

\* ------------------------------------------------------------------------
\* Combat resolver (combat.ts); entities are addressed by their index in the
\* live collection, so that a hit on a target is seen by the units after it
\* ------------------------------------------------------------------------

\* the indices 1..Len(es), in order
Indices(es) == [i \in 1..Len(es) |-> i]

\* the loop of findNearestWithinRange: minSq is minDistance squared
\* (NoValue when the range it starts from is undefined), best the index
\* of `nearest` (0 is null)
RECURSIVE nearestWithinLoop(_, _, _, _, _, _)
nearestWithinLoop(es, e, cand, k, minSq, best) ==
  IF k > Len(cand) THEN best
  ELSE LET d == getDistanceSquared(e.position, es[cand[k]].position)
       IN  IF minSq # NoValue /\ d <= minSq
           THEN nearestWithinLoop(es, e, cand, k + 1, d, cand[k])
           ELSE nearestWithinLoop(es, e, cand, k + 1, minSq, best)

\* findNearestWithinRange: index of the nearest candidate, 0 for null
findNearestWithinRange(es, e, cand, range) ==
  IF Len(cand) = 0 THEN 0
  ELSE nearestWithinLoop(es, e, cand, 1,
         IF range = NoValue THEN NoValue ELSE range * range, 0)

\* the loop of findNearestEnemy: best = 0 stands for minDistance = Infinity
RECURSIVE nearestEnemyLoop(_, _, _, _, _, _)
nearestEnemyLoop(es, e, cand, k, minSq, best) ==
  IF k > Len(cand) THEN best
  ELSE LET c == es[cand[k]]
           d == getDistanceSquared(e.position, c.position)
       IN  IF isAlive(c) /\ (best = 0 \/ d < minSq)
           THEN nearestEnemyLoop(es, e, cand, k + 1, d, cand[k])
           ELSE nearestEnemyLoop(es, e, cand, k + 1, minSq, best)

\* findNearestEnemy: index of the nearest living candidate, 0 for null
findNearestEnemy(es, e, cand) ==
  IF Len(cand) = 0 THEN 0 ELSE nearestEnemyLoop(es, e, cand, 1, 0, 0)

\* processAttack: attacker i hits target j
processAttack(es, i, j, tickTime) ==
  LET died     == takeDamageKilled(es[j], es[i].stats.damage)
      hit      == takeDamage(es[j], es[i].stats.damage)
      attacked == recordAttack(es[i], tickTime)
  IN  [es EXCEPT ![j] = hit,
                 ![i] = IF died THEN setTarget(attacked, <<>>) ELSE attacked]

\* the target search of one entity: index of the target, 0 for null
selectTarget(es, i, enemies) ==
  LET NotTower(c) == ~c.isTower
      Tower(c)    == c.isTower
      enemyUnits  == SelectSeq(enemies, LAMBDA k : NotTower(es[k]))
      near        == findNearestWithinRange(es, es[i], enemyUnits,
                                            es[i].stats.aggroRange)
  IN  IF near # 0 THEN near
      ELSE findNearestEnemy(es, es[i],
                            SelectSeq(enemies, LAMBDA k : Tower(es[k])))

\* the loop body in which a unit killed earlier in the tick still strikes
combatStepDeadStrike(es, i, p1, p2, tickTime) ==
  IF es[i].isTower THEN es
  ELSE LET enemies == IF es[i].ownerId = "player1" THEN p2 ELSE p1
           j       == selectTarget(es, i, enemies)
           target  == IF j = 0 THEN <<>> ELSE <<es[j]>>
           es1     == [es EXCEPT ![i] = updateState(es[i], target, tickTime)]
       IN  IF ~isAlive(es[i])
           THEN IF j # 0 /\ isInRange(es[i], es[j])
                THEN [es EXCEPT ![j] = takeDamage(es[j], es[i].stats.damage)]
                ELSE es
           ELSE IF es1[i].state = "ATTACKING" /\ j # 0 /\ canAttack(es1[i], tickTime)
           THEN processAttack(es1, i, j, tickTime)
           ELSE es1

\* the body of the loop of CombatSystem.update, for the entity at index i
combatStep(es, i, p1, p2, tickTime) ==
  IF ~isAlive(es[i]) \/ es[i].isTower THEN es
  ELSE LET enemies == IF es[i].ownerId = "player1" THEN p2 ELSE p1
           j       == selectTarget(es, i, enemies)
           target  == IF j = 0 THEN <<>> ELSE <<es[j]>>
           es1     == [es EXCEPT ![i] = updateState(es[i], target, tickTime)]
       IN  IF es1[i].state = "ATTACKING" /\ j # 0 /\ canAttack(es1[i], tickTime)
           THEN processAttack(es1, i, j, tickTime)
           ELSE es1

\* the for loop of CombatSystem.update (each step's result is bound as a
\* value before the next step reads it)
RECURSIVE combatLoop(_, _, _, _, _)
combatLoop(es, i, p1, p2, tickTime) ==
  IF i > Len(es) THEN es
  ELSE CHOOSE r \in { combatLoop(nxt, i + 1, p1, p2, tickTime) :
                        nxt \in {combatStep(es, i, p1, p2, tickTime)} } : TRUE

\* CombatSystem.update: the collection after the combat phase
combatUpdate(es, tickTime) ==
  LET P1(k) == es[k].ownerId = "player1" /\ isAlive(es[k])
      P2(k) == es[k].ownerId = "player2" /\ isAlive(es[k])
  IN  CHOOSE r \in { combatLoop(es, 1, p1, p2, tickTime) :
                       p1 \in {SelectSeq(Indices(es), P1)},
                       p2 \in {SelectSeq(Indices(es), P2)} } : TRUE

\* ------------------------------------------------------------------------
\* Physics kernel (physics.ts), in fixed point: lengths in 1/100 map unit,
\* every computed displacement rounded to the nearest 1/100
\* ------------------------------------------------------------------------

separationForce == 2

collisionIterations == 3

\* DEFAULT_PHYSICS_CONFIG.bounds
bounds == [minX |-> 0, maxX |-> 3000, minY |-> 0, maxY |-> 4000]

\* a / b rounded to the nearest integer, b > 0
RoundDiv(a, b) ==
  IF a >= 0 THEN (2 * a + b) \div (2 * b) ELSE -((2 * (-a) + b) \div (2 * b))

RECURSIVE sqrtIter(_, _)
sqrtIter(n, x) ==
  LET y == (x + n \div x) \div 2
  IN  IF y >= x THEN x ELSE sqrtIter(n, y)

\* Math.sqrt, rounded to the nearest integer
Sqrt(n) ==
  IF n <= 0 THEN 0
  ELSE LET r == sqrtIter(n, n)
       IN  IF (r + 1) * (r + 1) - n < n - r * r THEN r + 1 ELSE r

\* moveTowards without the cap of the step at the remaining distance
moveTowardsOvershooting(e, target, dtMs) ==
  LET dx == target.x - e.position.x
      dy == target.y - e.position.y
      distSq == dx * dx + dy * dy
      distance == Sqrt(distSq)
      moveDistance == (e.moveSpeed * dtMs) \div 1000
  IN  IF distSq < 100 THEN [e EXCEPT !.isMoving = FALSE]
      ELSE [e EXCEPT !.position.x = e.position.x + RoundDiv(dx * moveDistance, distance),
                     !.position.y = e.position.y + RoundDiv(dy * moveDistance, distance)]

\* moveTowards: the body after one movement step
moveTowards(e, target, dtMs) ==
  LET dx == target.x - e.position.x
      dy == target.y - e.position.y
      distSq == dx * dx + dy * dy
      distance == Sqrt(distSq)
      moveDistance == (e.moveSpeed * dtMs) \div 1000
  IN  IF distSq < 100 THEN [e EXCEPT !.isMoving = FALSE]
      ELSE IF moveDistance * moveDistance >= distSq
      THEN [e EXCEPT !.position = target]
      ELSE [e EXCEPT !.position.x = e.position.x + RoundDiv(dx * moveDistance, distance),
                     !.position.y = e.position.y + RoundDiv(dy * moveDistance, distance)]

\* phase 1 of PhysicsSystem.update
movePhase(es, dtMs) ==
  [i \in 1..Len(es) |->
     IF es[i].isMoving /\ es[i].targetPosition # <<>>
     THEN moveTowards(es[i], es[i].targetPosition[1], dtMs)
     ELSE es[i]]

\* the body of the pair loop of resolveCollisions, for the pair (i, j)
resolvePair(es, i, j, dtMs) ==
  LET a == es[i]
      b == es[j]
      dx == b.position.x - a.position.x
      dy == b.position.y - a.position.y
      distSq == dx * dx + dy * dy
      minDist == a.radius + b.radius
  IN  IF distSq < minDist * minDist /\ distSq > 1
      THEN LET dist == Sqrt(distSq)
               overlap == minDist - dist
               \* halfPush = overlap * separationForce * deltaTime * 0.5
               px == RoundDiv(dx * overlap * separationForce * dtMs, dist * 2000)
               py == RoundDiv(dy * overlap * separationForce * dtMs, dist * 2000)
           IN  [es EXCEPT ![i].position = [x |-> a.position.x - px, y |-> a.position.y - py],
                          ![j].position = [x |-> b.position.x + px, y |-> b.position.y + py]]
      ELSE es

RECURSIVE collisionLoop(_, _, _, _)
collisionLoop(es, i, j, dtMs) ==
  IF i > Len(es) THEN es
  ELSE IF j > Len(es) THEN collisionLoop(es, i + 1, i + 2, dtMs)
  ELSE CHOOSE r \in { collisionLoop(nxt, i, j + 1, dtMs) :
                        nxt \in {resolvePair(es, i, j, dtMs)} } : TRUE

\* resolveCollisions: one pass over all pairs i < j
resolveCollisions(es, dtMs) == collisionLoop(es, 1, 2, dtMs)

RECURSIVE collisionPasses(_, _, _)
collisionPasses(es, n, dtMs) ==
  IF n = 0 THEN es
  ELSE CHOOSE r \in { collisionPasses(nxt, n - 1, dtMs) :
                        nxt \in {resolveCollisions(es, dtMs)} } : TRUE

\* clampToBounds that leaves the position as it is
clampToNothing(e) == e

\* clampToBounds
clampToBounds(e) ==
  [e EXCEPT !.position =
     [x |-> Max(bounds.minX + e.radius, Min(bounds.maxX - e.radius, e.position.x)),
      y |-> Max(bounds.minY + e.radius, Min(bounds.maxY - e.radius, e.position.y))]]

\* PhysicsSystem.update: movement, collisionIterations passes, clamp
physicsUpdate(es, dtMs) ==
  CHOOSE r \in { [i \in 1..Len(pushed) |-> clampToBounds(pushed[i])] :
                   pushed \in {collisionPasses(movePhase(es, dtMs),
                                               collisionIterations, dtMs)} } : TRUE

\* ------------------------------------------------------------------------
\* State
\* ------------------------------------------------------------------------

VARIABLES
  player1,        \* PlayerConnection of slot 1: <<>> is null, <<conn>> bound
  player2,        \* PlayerConnection of slot 2: <<>> is null, <<conn>> bound
  tick,           \* gameState.tick
  mana,           \* gameState.mana, [1..2 -> mana units]
  towers,         \* gameState.towers, [tower id -> health]
  startTime,      \* gameState.startTime
  isRunning,      \* gameState.isRunning
  snapshot,       \* gameState.entities (ids of the last snapshot)
  tickInterval,   \* handle of the Room's timer, 0 when null
  timers,         \* handles of the interval timers that are active
  entities,       \* the live unit collection, in spawn order
  entityCounter,  \* this.entityCounter
  now,            \* Date.now()
  endCalls,       \* invocations of the onGameEnd callback, in order
  emitted,        \* messages the last operation handed to the transport
  lastOp,         \* the last public operation and its return value
  stopped,        \* history: stop() has taken effect on this Room
  clients,          \* SocketManager.clients: [socket id -> ConnectedClient]
  socketIdCounter,  \* SocketManager.socketIdCounter
  matchmakingQueue, \* SocketManager.matchmakingQueue: socket ids, oldest first
  rooms,            \* SocketManager.rooms: [room id -> GameRoom]
  roomIdCounter,    \* SocketManager.roomIdCounter
  listening,        \* the WebSocket server accepts connections
  delivered,        \* messages the last event put on the sockets, in order
  lastEvent         \* the last event the SocketManager handled, and the Room
                    \* of the client or timer it came from

vars == << player1, player2, tick, mana, towers, startTime, isRunning,
           snapshot, tickInterval, timers, entities,
           entityCounter, now, endCalls, emitted, lastOp, stopped,
           clients, socketIdCounter, matchmakingQueue, rooms, roomIdCounter,
           listening, delivered, lastEvent >>

\* the variables of the SocketManager
dirVars == << clients, socketIdCounter, matchmakingQueue, rooms, roomIdCounter,
              listening, delivered, lastEvent >>

TowerIds == {"t1_left", "t1_right", "t1_core", "t2_left", "t2_right", "t2_core"}

TowerOwner(t) == IF t \in {"t1_left", "t1_right", "t1_core"} THEN 1 ELSE 2

\* createInitialTowers: health of the six towers
createInitialTowers ==
  [t \in TowerIds |-> IF t \in {"t1_core", "t2_core"} THEN 4000 ELSE 2500]

\* the SocketManager after its constructor and start(): no client, no
\* queue, no Room
InitDirectory ==
  /\ clients = [s \in {} |-> Null]
  /\ socketIdCounter = 0
  /\ matchmakingQueue = <<>>
  /\ rooms = [r \in {} |-> Null]
  /\ roomIdCounter = 0
  /\ listening = TRUE
  /\ delivered = <<>>
  /\ lastEvent = [op |-> "new", roomId |-> Null]

\* constructor + createInitialState of the GameRoom
InitRoom ==
  /\ player1 = <<>>
  /\ player2 = <<>>
  /\ tick = 0
  /\ \E m \in InitialManas : mana = [p \in Players |-> m * tickRate]
  /\ towers = createInitialTowers
  /\ startTime = 0
  /\ isRunning = FALSE
  /\ snapshot = <<>>
  /\ tickInterval = 0
  /\ timers = {}
  /\ entities = <<>>
  /\ entityCounter = 0
  /\ now = Epoch
  /\ endCalls = <<>>
  /\ emitted = <<>>
  /\ lastOp = [op |-> "new"]
  /\ stopped = FALSE

\* a Room constructed by hand, next to a SocketManager without clients
Init == InitRoom /\ InitDirectory

\* ------------------------------------------------------------------------
\* Room operations (game-room.ts)
\* ------------------------------------------------------------------------

\* the identity the Session Directory binds to each slot
PlayerIdOf(slot) == IF slot = 1 THEN "player-1-uuid" ELSE "player-2-uuid"

\* inputs of SPAWN_CARD: card indexes (the deck has 3 cards), x and y in
\* map units
CardIndexes == {-1, 0, 2, 9}

SpawnXs == {10}

SpawnYs == {5, 30}

\* calculateFinalStats: base + modifiers of the known items, floored
RECURSIVE sumModifier(_, _, _)
sumModifier(items, k, field) ==
  IF k > Len(items) THEN 0
  ELSE (IF HasItem(items[k]) THEN ITEMS[items[k]][field] ELSE 0)
       + sumModifier(items, k + 1, field)

\* calculateFinalStats without the minimum values
calculateFinalStatsUnfloored(baseStats, equippedItems) ==
  [ hp |-> baseStats.health + sumModifier(equippedItems, 1, "health"),
    maxHp |-> baseStats.health + sumModifier(equippedItems, 1, "health"),
    damage |-> baseStats.damage + sumModifier(equippedItems, 1, "damage"),
    attackSpeed |-> baseStats.attackSpeed + sumModifier(equippedItems, 1, "attackSpeed"),
    range |-> baseStats.range + sumModifier(equippedItems, 1, "range"),
    moveSpeed |-> baseStats.moveSpeed + sumModifier(equippedItems, 1, "moveSpeed"),
    aggroRange |-> NoValue ]

calculateFinalStats(baseStats, equippedItems) ==
  LET health      == baseStats.health + sumModifier(equippedItems, 1, "health")
      damage      == baseStats.damage + sumModifier(equippedItems, 1, "damage")
      attackSpeed == baseStats.attackSpeed + sumModifier(equippedItems, 1, "attackSpeed")
      range       == baseStats.range + sumModifier(equippedItems, 1, "range")
      moveSpeed   == baseStats.moveSpeed + sumModifier(equippedItems, 1, "moveSpeed")
  IN  [ hp |-> Max(1, health), maxHp |-> Max(1, health),
        damage |-> Max(1, damage), attackSpeed |-> Max(1, attackSpeed),
        range |-> Max(50, range), moveSpeed |-> Max(50, moveSpeed),
        aggroRange |-> NoValue ]

\* the ENTITY_SPAWNED message of broadcastEntitySpawned
entitySpawnedMessage(e) ==
  [ to |-> "all", type |-> "ENTITY_SPAWNED",
    entity |-> [id |-> e.id, ownerId |-> e.ownerId, unitId |-> e.unitId,
                maxHp |-> e.stats.maxHp, position |-> e.position] ]

\* the entity spawnUnit creates; x and y in map units
spawnedEntity(playerIndex, unitId, x, y, equippedItems) ==
  createEntity(EntityId(unitId, entityCounter + 1), OwnerId(playerIndex), unitId,
               x * 100, y * 100,
               calculateFinalStats(UNITS[unitId], equippedItems), 50)

\* spawnUnit that registers the unit and broadcasts nothing
spawnUnitSilent(playerIndex, unitId, x, y, equippedItems) ==
  IF ~HasUnit(unitId)
  THEN /\ UNCHANGED << entities, entityCounter >>
       /\ emitted' = <<>>
  ELSE LET e == spawnedEntity(playerIndex, unitId, x, y, equippedItems)
       IN  /\ entityCounter' = entityCounter + 1
           /\ entities' = Append(entities, e)
           /\ emitted' = <<>>

\* spawnUnit: null (FALSE) when the catalog has no such unit, otherwise
\* the unit is registered and ENTITY_SPAWNED is broadcast
spawnUnit(playerIndex, unitId, x, y, equippedItems) ==
  IF ~HasUnit(unitId)
  THEN /\ UNCHANGED << entities, entityCounter >>
       /\ emitted' = <<>>
  ELSE LET e == spawnedEntity(playerIndex, unitId, x, y, equippedItems)
       IN  /\ entityCounter' = entityCounter + 1
           /\ entities' = Append(entities, e)
           /\ emitted' = << entitySpawnedMessage(e) >>

\* the % operator of JavaScript: the sign of the dividend
JsRem(a, n) == IF a >= 0 THEN a % n ELSE -((-a) % n)

testUnits == << "knight_base", "archer_base", "mage_base" >>

\* testUnits[cardIndex % testUnits.length]
testUnitFor(cardIndex) ==
  LET k == JsRem(cardIndex, Len(testUnits))
  IN  IF k >= 0 THEN testUnits[k + 1] ELSE Undefined

\* handleSpawnRequest(playerIndex, cardIndex, x, y)
HandleSpawnRequest(playerIndex, cardIndex, x, y) ==
  /\ HasUnit(testUnitFor(cardIndex)) => entityCounter < MaxUnits
  /\ spawnUnit(playerIndex, testUnitFor(cardIndex), x, y, <<>>)
  /\ lastOp' = [op |-> "handleSpawnRequest",
                result |-> HasUnit(testUnitFor(cardIndex))]
  /\ UNCHANGED << player1, player2, tick, mana, towers, startTime, isRunning,
                  snapshot, tickInterval, timers, now, endCalls, stopped >>

\* addPlayer that binds the slot whether it is filled or not
AddPlayerReplacing(playerId, slot) ==
  LET conn == [playerId |-> playerId, deckId |-> "deck-1", deckCards |-> mockDeck]
  IN  /\ IF slot = 1
         THEN player1' = <<conn>> /\ UNCHANGED player2
         ELSE player2' = <<conn>> /\ UNCHANGED player1
      /\ lastOp' = [op |-> "addPlayer", slot |-> slot, result |-> TRUE]
      /\ emitted' = <<>>
      /\ UNCHANGED << tick, mana, towers, startTime, isRunning, snapshot,
                      tickInterval, timers, entities, entityCounter, now, endCalls,
                      stopped >>

\* addPlayer(player, slot)
AddPlayer(playerId, slot) ==
  LET conn == [playerId |-> playerId, deckId |-> "deck-1", deckCards |-> mockDeck]
  IN  /\ IF slot = 1 /\ player1 = <<>>
         THEN player1' = <<conn>> /\ UNCHANGED player2
         ELSE IF slot = 2 /\ player2 = <<>>
         THEN player2' = <<conn>> /\ UNCHANGED player1
         ELSE UNCHANGED << player1, player2 >>
      /\ lastOp' = [op |-> "addPlayer", slot |-> slot,
                    result |-> IF slot = 1 THEN player1 = <<>> ELSE player2 = <<>>]
      /\ emitted' = <<>>
      /\ UNCHANGED << tick, mana, towers, startTime, isRunning, snapshot,
                      tickInterval, timers, entities, entityCounter, now, endCalls,
                      stopped >>

\* isReady
isReady == player1 # <<>> /\ player2 # <<>>

\* setInterval: a handle no active timer has
newTimer == CHOOSE h \in 1..(Cardinality(timers) + 1) : h \notin timers

\* start() without the early return of a running Room
StartUnguarded ==
  /\ isRunning' = TRUE
  /\ startTime' = now
  /\ tickInterval' = newTimer
  /\ timers' = timers \cup {newTimer}
  /\ lastOp' = [op |-> "start"]
  /\ emitted' = <<>>
  /\ UNCHANGED << player1, player2, tick, mana, towers, snapshot, entities,
                  entityCounter, now, endCalls, stopped >>

\* start()
Start ==
  /\ IF isRunning
     THEN UNCHANGED << isRunning, startTime, tickInterval, timers >>
     ELSE /\ isRunning' = TRUE
          /\ startTime' = now
          /\ tickInterval' = newTimer
          /\ timers' = timers \cup {newTimer}
  /\ lastOp' = [op |-> "start"]
  /\ emitted' = <<>>
  /\ UNCHANGED << player1, player2, tick, mana, towers, snapshot, entities,
                  entityCounter, now, endCalls, stopped >>

\* the effect of stop(reason) on isRunning, tickInterval and the timers
stopEffect(running, interval, active) ==
  IF ~running
  THEN [isRunning |-> running, tickInterval |-> interval, timers |-> active]
  ELSE [isRunning |-> FALSE, tickInterval |-> 0,
        timers |-> IF interval # 0 THEN active \ {interval} ELSE active]

\* stop(reason), called from outside the Room
Stop ==
  LET s == stopEffect(isRunning, tickInterval, timers)
  IN  /\ isRunning' = s.isRunning
      /\ tickInterval' = s.tickInterval
      /\ timers' = s.timers
      /\ stopped' = (stopped \/ isRunning)
      /\ lastOp' = [op |-> "stop"]
      /\ emitted' = <<>>
      /\ UNCHANGED << player1, player2, tick, mana, towers, startTime, snapshot,
                      entities, entityCounter, now, endCalls >>

\* updateMana without the cap at maxMana
updateManaUncapped(m, regenRate) == [p \in Players |-> m[p] + regenRate]

\* updateMana: min(maxMana, mana + manaRegenRate / tickRate), in mana units,
\* for a Room configured with manaRegenRate = regenRate
updateMana(m, regenRate) ==
  [p \in Players |-> Min(maxMana * tickRate, m[p] + regenRate)]

\* cleanupDeadEntities: entities.filter(isAlive)
\* cleanupDeadEntities that removes nothing
cleanupKeepsTheDead(es) == es

cleanupDeadEntities(es) == SelectSeq(es, isAlive)

RECURSIVE sumHealth(_, _)
sumHealth(tw, ids) ==
  IF ids = {} THEN 0
  ELSE LET t == CHOOSE t \in ids : TRUE IN tw[t] + sumHealth(tw, ids \ {t})

\* determineWinnerByTowers with a strict comparison
determineWinnerByTowersStrict(tw) ==
  LET p1TotalHp == sumHealth(tw, {t \in TowerIds : TowerOwner(t) = 1})
      p2TotalHp == sumHealth(tw, {t \in TowerIds : TowerOwner(t) = 2})
  IN  IF p1TotalHp > p2TotalHp THEN "player1" ELSE "player2"

\* determineWinnerByTowers
determineWinnerByTowers(tw) ==
  LET p1TotalHp == sumHealth(tw, {t \in TowerIds : TowerOwner(t) = 1})
      p2TotalHp == sumHealth(tw, {t \in TowerIds : TowerOwner(t) = 2})
  IN  IF p1TotalHp >= p2TotalHp THEN "player1" ELSE "player2"

\* checkWinCondition: <<>> when the match goes on, otherwise the
\* <<[winnerId, reason]>> endGame is called with
checkWinCondition(tw, elapsed) ==
  IF elapsed >= maxDurationMs
  THEN << [winnerId |-> determineWinnerByTowers(tw), reason |-> "Tempo limite atingido"] >>
  ELSE IF tw["t1_core"] <= 0
  THEN << [winnerId |-> "player2", reason |-> "Core do Player 1 destruido"] >>
  ELSE IF tw["t2_core"] <= 0
  THEN << [winnerId |-> "player1", reason |-> "Core do Player 2 destruido"] >>
  ELSE <<>>

\* stateToCode
stateToCode(state) ==
  CASE state = "IDLE" -> 0
    [] state = "MOVING" -> 1
    [] state = "ATTACKING" -> 2
    [] state = "COOLDOWN" -> 3
    [] state = "DEAD" -> 4
    [] OTHER -> 0

\* Math.round(mana * 10) / 10, in tenths of a mana point
roundMana(m) == (m * 20 + tickRate) \div (2 * tickRate)

\* the GAME_TICK message of broadcastGameTick
gameTickMessage(t, m, es, tw) ==
  [ to |-> "all", type |-> "GAME_TICK",
    payload |-> [ tick |-> t, mana1 |-> roundMana(m[1]), mana2 |-> roundMana(m[2]),
                  entities |-> [i \in 1..Len(es) |->
                                  [id |-> es[i].id, x |-> es[i].position.x,
                                   y |-> es[i].position.y, hp |-> es[i].stats.hp,
                                   s |-> stateToCode(es[i].state)]],
                  towers |-> tw ] ]

\* tick(), the callback of timer h, called dt milliseconds after the
\* previous callback (or after start)
Tick(h, dt) ==
  /\ h \in timers
  /\ tick < MaxTick
  /\ now' = now + dt
  /\ tick' = tick + 1
  /\ mana' = updateMana(mana, manaRegenRate)
  /\ \E alive \in {cleanupDeadEntities(
                      physicsUpdate(combatUpdate(entities, now + dt), tickDuration))} :
     LET end     == checkWinCondition(towers, now + dt - startTime)
         s       == IF end = <<>>
                    THEN [isRunning |-> isRunning, tickInterval |-> tickInterval,
                          timers |-> timers]
                    ELSE stopEffect(isRunning, tickInterval, timers)
     IN  /\ entities' = alive
         /\ isRunning' = s.isRunning
         /\ tickInterval' = s.tickInterval
         /\ timers' = s.timers
         /\ endCalls' = endCalls \o end
         /\ stopped' = (stopped \/ (end # <<>> /\ isRunning))
         /\ snapshot' = [i \in 1..Len(alive) |-> toSnapshot(alive[i])]
         /\ emitted' = << gameTickMessage(tick', mana', alive, towers) >>
  /\ lastOp' = [op |-> "tick"]
  /\ UNCHANGED << player1, player2, towers, startTime, entityCounter >>

\* damage the combat resolver applies to an objective
TowerDamages == {4000}

\* a unit's attack lands on a tower: subtract, clamp at 0
DamageTower(t, d) ==
  /\ isRunning
  /\ towers[t] > 0
  /\ towers' = [towers EXCEPT ![t] = Max(0, @ - d)]
  /\ lastOp' = [op |-> "damageTower"]
  /\ emitted' = <<>>
  /\ UNCHANGED << player1, player2, tick, mana, startTime, isRunning, snapshot,
                  tickInterval, timers, entities, entityCounter, now, endCalls,
                  stopped >>

\* the players take their slots
NextLobby ==
  \/ /\ \E slot \in Players, owner \in Players : AddPlayer(PlayerIdOf(owner), slot)
     /\ UNCHANGED dirVars
  \/ /\ Start
     /\ UNCHANGED dirVars
  \/ /\ Stop
     /\ UNCHANGED dirVars

SpecLobby == Init /\ [][NextLobby]_vars

\* the Room as the Session Directory drives it
Next ==
  \/ /\ Start
     /\ UNCHANGED dirVars
  \/ /\ Stop
     /\ UNCHANGED dirVars
  \/ /\ \E h \in timers, dt \in TickDelays : Tick(h, dt)
     /\ UNCHANGED dirVars
  \/ /\ \E p \in Players, c \in CardIndexes, x \in SpawnXs, y \in SpawnYs :
          HandleSpawnRequest(p, c, x, y)
     /\ UNCHANGED dirVars

Spec == Init /\ [][Next]_vars

\* the match lifecycle of a Room whose towers take damage
NextTowers ==
  \/ /\ Start
     /\ UNCHANGED dirVars
  \/ /\ Stop
     /\ UNCHANGED dirVars
  \/ /\ \E h \in timers, dt \in TickDelays : Tick(h, dt)
     /\ UNCHANGED dirVars
  \/ /\ \E t \in TowerIds, d \in TowerDamages : DamageTower(t, d)
     /\ UNCHANGED dirVars

SpecTowers == Init /\ [][NextTowers]_vars

\* ------------------------------------------------------------------------
\* The arena: units that carry the aggro range of their catalog template
\* ------------------------------------------------------------------------

\* units the arena registers over its lifetime
MaxArenaUnits == 3

\* the final stats with the aggroRange of the base stats
calculateFinalStatsAggro(baseStats, equippedItems) ==
  [calculateFinalStats(baseStats, equippedItems)
     EXCEPT !.aggroRange = baseStats.aggroRange]

\* what each player deploys: catalog unit and equipment
ArenaLoadouts(playerIndex) ==
  IF playerIndex = 1
  THEN { [unitId |-> "mage_solar", equippedItems |-> << "sword_flame_t1" >>],
         [unitId |-> "knight_base", equippedItems |-> <<>>] }
  ELSE { [unitId |-> "mage_solar", equippedItems |-> <<>>] }

\* where the units are deployed, in map units
ArenaX == 10

ArenaYs(playerIndex) == IF playerIndex = 1 THEN {18, 22} ELSE {20, 22}

\* spawnUnit(playerIndex, unitId, x, y, equippedItems) of a Room whose
\* units carry an aggro range
SpawnArenaUnit(playerIndex, unitId, x, y, equippedItems) ==
  /\ HasUnit(unitId)
  /\ entityCounter < MaxArenaUnits
  /\ LET e == createEntity(EntityId(unitId, entityCounter + 1), OwnerId(playerIndex),
                           unitId, x * 100, y * 100,
                           calculateFinalStatsAggro(UNITS[unitId], equippedItems), 50)
     IN  /\ entityCounter' = entityCounter + 1
         /\ entities' = Append(entities, e)
         /\ emitted' = << entitySpawnedMessage(e) >>
  /\ lastOp' = [op |-> "spawnUnit"]
  /\ UNCHANGED << player1, player2, tick, mana, towers, startTime, isRunning,
                  snapshot, tickInterval, timers, now, endCalls, stopped >>

NextArena ==
  \/ /\ Start
     /\ UNCHANGED dirVars
  \/ /\ \E h \in timers : Tick(h, tickDuration)
     /\ UNCHANGED dirVars
  \/ /\ \E p \in Players : \E y \in ArenaYs(p), l \in ArenaLoadouts(p) :
          SpawnArenaUnit(p, l.unitId, ArenaX, y, l.equippedItems)
     /\ UNCHANGED dirVars

SpecArena == Init /\ [][NextArena]_vars

\* delays between two timer callbacks of the stalling event loop: on time,
\* or late by 23 periods
ArenaDelays == {tickDuration, 24 * tickDuration}

\* the arena with every unit deployed before the first tick and a timer
\* whose callbacks may come late
NextStall ==
  \/ /\ Start
     /\ UNCHANGED dirVars
  \/ /\ \E h \in timers : \E dt \in ArenaDelays : Tick(h, dt)
     /\ UNCHANGED dirVars
  \/ /\ \E p \in Players : \E y \in ArenaYs(p), l \in ArenaLoadouts(p) :
          tick = 0 /\ SpawnArenaUnit(p, l.unitId, ArenaX, y, l.equippedItems)
     /\ UNCHANGED dirVars

SpecStall == Init /\ [][NextStall]_vars

\* the indices of the living entities of an owner, as CombatSystem.update
\* filters them before its loop
AliveOf(es, ownerId) ==
  SelectSeq(Indices(es), LAMBDA k : es[k].ownerId = ownerId /\ isAlive(es[k]))

\* the collections the loop of CombatSystem.update goes through: tr[1] is
\* the collection it is given, tr[k + 1] the collection after k iterations
RECURSIVE combatTrace(_, _, _, _, _)
combatTrace(tr, k, p1, p2, tickTime) ==
  IF k > Len(tr[1]) THEN tr
  ELSE CHOOSE r \in { combatTrace(Append(tr, nxt), k + 1, p1, p2, tickTime) :
                        nxt \in {combatStep(tr[Len(tr)], k, p1, p2, tickTime)} } : TRUE

\* the combat phase of the tick being taken, iteration by iteration
TickTrace ==
  combatTrace(<< entities >>, 1, AliveOf(entities, "player1"),
              AliveOf(entities, "player2"), now')

\* ------------------------------------------------------------------------
\* The anti-cheat gate as the declaration of handleSpawnRequest documents it
\* ------------------------------------------------------------------------

\* the deploy zone of a player, y in map units
InDeployZone(playerIndex, y) ==
  IF playerIndex = 1
  THEN 0 <= y /\ y <= PLAYER_1_DEPLOY_ZONE_MAX_Y
  ELSE PLAYER_2_DEPLOY_ZONE_MIN_Y <= y /\ y <= MAP_HEIGHT

\* the card index addresses a card of the deck
CardInDeck(cardIndex) == 0 <= cardIndex /\ cardIndex < Len(mockDeck)

RECURSIVE sumWeights(_, _)
sumWeights(items, k) ==
  IF k > Len(items) THEN 0
  ELSE ITEMS[items[k]].manaWeight + sumWeights(items, k + 1)

\* calculateCardCost: base cost + item weights, in mana units
calculateCardCost(card) ==
  (UNITS[card.baseUnitId].manaCost + sumWeights(card.equippedItems, 1)) * tickRate

\* the code of the first anti-cheat check the request fails, "OK" if none
ExpectedCode(playerIndex, cardIndex, y) ==
  IF ~CardInDeck(cardIndex) THEN "INVALID_CARD_INDEX"
  ELSE IF ~InDeployZone(playerIndex, y) THEN "INVALID_POSITION"
  ELSE IF ~HasUnit(mockDeck[cardIndex + 1].baseUnitId) THEN "CARD_NOT_FOUND"
  ELSE IF mana[playerIndex] < calculateCardCost(mockDeck[cardIndex + 1])
  THEN "INSUFFICIENT_MANA"
  ELSE "OK"

\* the ERROR messages an operation sent to one player
ErrorsTo(msgs, playerIndex) ==
  SelectSeq(msgs, LAMBDA m : m.type = "ERROR" /\ m.to = OwnerId(playerIndex))

\* the operation sent the player exactly one ERROR, with this code
RejectedWith(msgs, playerIndex, code) ==
  /\ Len(ErrorsTo(msgs, playerIndex)) = 1
  /\ ErrorsTo(msgs, playerIndex)[1].code = code

\* the messages an operation made visible to a player
VisibleTo(msgs, playerIndex) ==
  SelectSeq(msgs, LAMBDA m : m.to \in {"all", OwnerId(playerIndex)})

\* ------------------------------------------------------------------------
\* Properties
\* ------------------------------------------------------------------------

\* C1: a spawn request outside the requester's deploy zone returns false,
\* is answered with INVALID_POSITION (when the card index is in the deck) and
\* leaves both players' mana and the live collection as they were.
C1_OutOfZoneRejected ==
  [][\A p \in Players, c \in CardIndexes, x \in SpawnXs, y \in SpawnYs :
       (HandleSpawnRequest(p, c, x, y) /\ ~InDeployZone(p, y)) =>
          /\ lastOp'.result = FALSE
          /\ CardInDeck(c) => RejectedWith(emitted', p, "INVALID_POSITION")
          /\ mana' = mana
          /\ entities' = entities]_vars

\* C2: a spawn request that passes every anti-cheat check returns true, costs
\* the requester the card's total cost, leaves the opponent's mana alone and
\* adds exactly one unit, owned by the requester.
C2_ValidSpawnDeductsCost ==
  [][\A p \in Players, c \in CardIndexes, x \in SpawnXs, y \in SpawnYs :
       (HandleSpawnRequest(p, c, x, y) /\ ExpectedCode(p, c, y) = "OK") =>
          /\ lastOp'.result = TRUE
          /\ mana'[p] = mana[p] - calculateCardCost(mockDeck[c + 1])
          /\ mana'[Opponent(p)] = mana[Opponent(p)]
          /\ Len(entities') = Len(entities) + 1
          /\ SubSeq(entities', 1, Len(entities)) = entities
          /\ entities'[Len(entities')].ownerId = OwnerId(p)]_vars

\* C3: a spawn request made with less mana than the card's total cost (the
\* earlier checks passing) returns false, is answered with INSUFFICIENT_MANA,
\* creates no unit and changes no mana.
C3_InsufficientManaRejected ==
  [][\A p \in Players, c \in CardIndexes, x \in SpawnXs, y \in SpawnYs :
       (HandleSpawnRequest(p, c, x, y)
          /\ ExpectedCode(p, c, y) = "INSUFFICIENT_MANA") =>
          /\ lastOp'.result = FALSE
          /\ RejectedWith(emitted', p, "INSUFFICIENT_MANA")
          /\ mana' = mana
          /\ entities' = entities]_vars

\* C4: a spawn request that fails one or more anti-cheat checks is rejected
\* with exactly one code, that of the first failing check in the order card
\* index, position, catalog, mana.
C4_FirstFailureCode ==
  [][\A p \in Players, c \in CardIndexes, x \in SpawnXs, y \in SpawnYs :
       (HandleSpawnRequest(p, c, x, y) /\ ExpectedCode(p, c, y) # "OK") =>
          /\ lastOp'.result = FALSE
          /\ RejectedWith(emitted', p, ExpectedCode(p, c, y))]_vars

\* C5: a spawn request that is rejected (it fails an anti-cheat check, or
\* handleSpawnRequest returns false) is reported to the requester alone and
\* changes nothing of the simulation: the opponent sees no message from it.
C5_RejectionOnlyToRequester ==
  [][\A p \in Players, c \in CardIndexes, x \in SpawnXs, y \in SpawnYs :
       (HandleSpawnRequest(p, c, x, y)
          /\ (ExpectedCode(p, c, y) # "OK" \/ lastOp'.result = FALSE)) =>
          /\ Len(ErrorsTo(emitted', p)) = 1
          /\ VisibleTo(emitted', Opponent(p)) = <<>>
          /\ UNCHANGED << tick, mana, towers, entities, entityCounter, snapshot,
                          isRunning >>]_vars

\* C6: in every reachable state of a Room each player's mana lies in the
\* closed interval [0, 10].
C6_ManaWithinBounds ==
  \A p \in Players : 0 <= mana[p] /\ mana[p] <= maxMana * tickRate

\* C6 happens: ticks and an accepted spawn request have brought a player's
\* mana to the cap
C6_ManaAtCapAfterTicksAndSpawn ==
  /\ lastOp.op = "tick"
  /\ tick >= 2
  /\ Len(entities) > 0
  /\ mana[1] = maxMana * tickRate

\* C7: over the whole lifetime of a Room the end-of-match callback is never
\* invoked a second time.
C7_AtMostOneEndCallback == Len(endCalls) <= 1

\* C8: once stop has taken effect, the tick counter, mana, units and towers of
\* the Room never change again, whatever operation comes later.
C8_StoppedRoomFrozen ==
  [][stopped => UNCHANGED << tick, mana, entities, towers >>]_vars

\* the core tower of a player
CoreOf(p) == IF p = 1 THEN "t1_core" ELSE "t2_core"

\* C9: a tick of a running match whose win-condition evaluation sees the core
\* of one player at or below 0 HP (the other core standing) ends the match in
\* that tick and declares the opponent of the core's owner the winner,
\* whatever the elapsed time.
C9_CoreDownOpponentWins ==
  [][\A p \in Players :
       (tick' = tick + 1 /\ isRunning
          /\ towers[CoreOf(p)] <= 0 /\ towers[CoreOf(Opponent(p))] > 0) =>
          /\ ~isRunning'
          /\ Len(endCalls') = Len(endCalls) + 1
          /\ endCalls'[Len(endCalls')].winnerId = OwnerId(Opponent(p))]_vars

\* summed HP of the three towers of a player
SummedTowerHp(p) ==
  IF p = 1
  THEN towers["t1_left"] + towers["t1_right"] + towers["t1_core"]
  ELSE towers["t2_left"] + towers["t2_right"] + towers["t2_core"]

EnemiesOf(i) ==
  IF entities[i].ownerId = "player1"
  THEN AliveOf(entities, "player2") ELSE AliveOf(entities, "player1")

\* candidate k of collection es is a living unit within the aggro range of
\* the unit at index i
LivingWithinAggro(es, i, k) ==
  /\ isAlive(es[k]) /\ ~es[k].isTower
  /\ es[i].stats.aggroRange # NoValue
  /\ getDistanceSquared(es[i].position, es[k].position)
       <= es[i].stats.aggroRange * es[i].stats.aggroRange

IdsOf(rs) == { rs[i].id : i \in 1..Len(rs) }

SomeLivingWithinAggro(es, i) ==
  \E k \in 1..Len(es) : es[k].ownerId # es[i].ownerId /\ LivingWithinAggro(es, i, k)

\* the owner of entity e has an enemy tower standing
EnemyTowerStanding(e) ==
  \E t \in TowerIds : OwnerId(TowerOwner(t)) # e.ownerId /\ towers[t] > 0

StateByTarget(e, target, tickTime) ==
  IF target = <<>> \/ ~isAlive(target[1]) THEN "IDLE"
  ELSE IF ~isInRange(e, target[1]) THEN "MOVING"
  ELSE IF canAttack(e, tickTime) THEN "ATTACKING"
  ELSE "COOLDOWN"

CooldownElapsed(e, t) == (t - e.lastAttackTime) * e.stats.attackSpeed >= 10000

\* the entities that lost HP in iteration i of the combat loop traced by tr
DamagedIn(tr, i) ==
  { j \in 1..Len(tr[i]) : tr[i + 1][j].stats.hp < tr[i][j].stats.hp }

NoEnemyInAttackRange(es, i) ==
  \A k \in 1..Len(es) :
     (es[k].ownerId # es[i].ownerId /\ isAlive(es[k])) => ~isInRange(es[i], es[k])

\* C20: in every tick of a running room, a living player-1 unit that stands
\* in its deploy zone with no enemy in attack range, while an enemy tower
\* stands, advances: its y coordinate after the tick is strictly greater.
C20_UnitAdvances ==
  [][(tick' = tick + 1 /\ isRunning) =>
       \A i \in 1..Len(entities) : \A n \in 1..Len(entities') :
          ( /\ entities'[n].id = entities[i].id
            /\ entities[i].ownerId = "player1"
            /\ entities[i].position.y <= PLAYER_1_DEPLOY_ZONE_MAX_Y * 100
            /\ NoEnemyInAttackRange(entities, i)
            /\ EnemyTowerStanding(entities[i]) ) =>
             entities'[n].position.y > entities[i].position.y]_vars

\* unit e killed its target in the tick that has just run: processAttack
\* stamped the attack with the tick time and cleared the target
JustKilledItsTarget(e) ==
  e.lastAttackTime = now /\ e.state = "IDLE" /\ e.targetId = Null

MaxBodies == 2

\* catalog units the bodies are built from (moveSpeed 2.0 and 2.5)
BodyKinds == {"knight_base", "archer_base"}

\* centres of the bodies, in 1/100 map unit: two points 0.6 apart in the
\* middle of the map and one point nearer to the map's edges than a radius
BodyPositions ==
  { [x |-> 1000, y |-> 1800], [x |-> 1000, y |-> 1860], [x |-> 20, y |-> 3980] }

\* steering of a body at pos: none, or a target 0.05, 0.11 or 5 units away
\* with isMoving set, or a target 0.11 units away with isMoving not set
BodySteerings(pos) ==
  { [targetPosition |-> <<>>, isMoving |-> FALSE],
    [targetPosition |-> << [x |-> pos.x, y |-> pos.y + 11] >>, isMoving |-> FALSE] }
    \cup { [targetPosition |-> << [x |-> pos.x + d.x, y |-> pos.y + d.y] >>,
             isMoving |-> TRUE] :
             d \in { [x |-> 0, y |-> 5], [x |-> 0, y |-> 11], [x |-> 300, y |-> 400] } }

\* a PhysicsEntity: a unit of the catalog with a position and a steering
Bodies ==
  UNION { { [createEntity(unitId, "player1", unitId, pos.x, pos.y,
                          calculateFinalStats(UNITS[unitId], <<>>), 50)
               EXCEPT !.targetPosition = st.targetPosition, !.isMoving = st.isMoving] :
              unitId \in BodyKinds, st \in BodySteerings(pos) } :
          pos \in BodyPositions }

\* the state in which update is called: 1..MaxBodies bodies, the body at
\* index i with the id of the i-th spawned unit
InitPhysics ==
  /\ player1 = <<>>
  /\ player2 = <<>>
  /\ tick = 0
  /\ mana = [p \in Players |-> maxMana * tickRate]
  /\ towers = createInitialTowers
  /\ startTime = 0
  /\ isRunning = FALSE
  /\ snapshot = <<>>
  /\ tickInterval = 0
  /\ timers = {}
  /\ \E n \in 1..MaxBodies : \E f \in [1..n -> Bodies] :
       /\ entities = [i \in 1..n |-> [f[i] EXCEPT !.id = EntityId(f[i].unitId, i)]]
       /\ entityCounter = n
  /\ now = Epoch
  /\ endCalls = <<>>
  /\ emitted = <<>>
  /\ lastOp = [op |-> "new"]
  /\ stopped = FALSE
  /\ InitDirectory

\* PhysicsSystem.update(entities, tickDuration / 1000)
PhysicsUpdate ==
  /\ lastOp.op = "new"
  /\ entities' = physicsUpdate(entities, tickDuration)
  /\ lastOp' = [op |-> "update"]
  /\ UNCHANGED << player1, player2, tick, mana, towers, startTime, isRunning, snapshot,
                  tickInterval, timers, entityCounter, now, endCalls, emitted, stopped >>

NextPhysics == PhysicsUpdate /\ UNCHANGED dirVars

SpecPhysics == InitPhysics /\ [][NextPhysics]_vars

\* the squared distance of the centres of bodies a and b
CentreDistSq(a, b) == getDistanceSquared(a.position, b.position)

\* C22: two circles of radius 0.5 whose centres are 0.6 apart when a
\* collision-resolution pass starts are at least 1.0 apart after the pass,
\* and their midpoint is unchanged.
C22_OnePassSeparates ==
  [][lastOp'.op = "update" =>
       \A moved \in {movePhase(entities, tickDuration)} :
          ( /\ Len(moved) = 2
            /\ moved[1].radius = 50 /\ moved[2].radius = 50
            /\ CentreDistSq(moved[1], moved[2]) = 60 * 60 ) =>
             \A pushed \in {resolveCollisions(moved, tickDuration)} :
                /\ CentreDistSq(pushed[1], pushed[2]) >= 100 * 100
                /\ pushed[1].position.x + pushed[2].position.x
                     = moved[1].position.x + moved[2].position.x
                /\ pushed[1].position.y + pushed[2].position.y
                     = moved[1].position.y + moved[2].position.y]_vars

\* the circles of bodies a and b overlap: centre distance below the sum of
\* the radii
Overlapping(a, b) == CentreDistSq(a, b) < (a.radius + b.radius) * (a.radius + b.radius)

\* C23: two overlapping circles, coinciding centres included, are farther
\* apart after a collision-resolution pass than when the pass started.
C23_OverlapPushedApart ==
  [][lastOp'.op = "update" =>
       \A moved \in {movePhase(entities, tickDuration)} :
          (Len(moved) = 2 /\ Overlapping(moved[1], moved[2])) =>
             \A pushed \in {resolveCollisions(moved, tickDuration)} :
                CentreDistSq(pushed[1], pushed[2]) > CentreDistSq(moved[1], moved[2])]_vars

\* |n|
AbsVal(n) == IF n >= 0 THEN n ELSE -n

\* body m is what the movement phase made of body e steering at point t:
\* not farther from t, displaced by at most moveSpeed * dt, on the line
\* from e to t (up to the rounding of each coordinate to the position
\* grid) and not beyond t
SteppedToward(e, m, t, dtMs) ==
  LET dx == t.x - e.position.x
      dy == t.y - e.position.y
      sx == m.position.x - e.position.x
      sy == m.position.y - e.position.y
  IN  /\ getDistanceSquared(m.position, t) <= getDistanceSquared(e.position, t)
      /\ (sx * sx + sy * sy) * 1000000 <= (e.moveSpeed * dtMs) * (e.moveSpeed * dtMs)
      /\ 2 * AbsVal(dx * sy - dy * sx) <= AbsVal(dx) + AbsVal(dy)
      /\ (t.x - m.position.x) * dx + (t.y - m.position.y) * dy >= 0

\* C24: the movement phase moves a moving body with a steering target on
\* the straight line toward the target by at most moveSpeed * dt, never
\* farther from it and never beyond it, and leaves every other body, in
\* particular one without a steering target, where it is.
C24_MoveNeverOvershoots ==
  [][lastOp'.op = "update" =>
       \A moved \in {movePhase(entities, tickDuration)} :
          /\ Len(moved) = Len(entities)
          /\ \A i \in 1..Len(entities) :
                IF entities[i].isMoving /\ entities[i].targetPosition # <<>>
                THEN SteppedToward(entities[i], moved[i],
                                   entities[i].targetPosition[1], tickDuration)
                ELSE moved[i].position = entities[i].position]_vars

\* a lone archer (0.125 units per tick) steering at a point 0.11 units
\* away has been updated and stands exactly on that point
C24_ArrivedOnTarget ==
  /\ lastOp.op = "update"
  /\ Len(entities) = 1
  /\ entities[1].unitId = "archer_base"
  /\ entities[1].isMoving
  /\ entities[1].targetPosition = << entities[1].position >>

\* the centre of body e lies in the map rectangle inset by the body's radius
InsideInsetMap(e) ==
  /\ bounds.minX + e.radius <= e.position.x /\ e.position.x <= bounds.maxX - e.radius
  /\ bounds.minY + e.radius <= e.position.y /\ e.position.y <= bounds.maxY - e.radius

C26_StartWhileRunningIsNoOp ==
  [][/\ Cardinality(timers') <= 1
     /\ (lastOp'.op = "start" /\ isRunning) =>
           /\ timers' = timers
           /\ startTime' = startTime
           /\ tickInterval' = tickInterval
           /\ isRunning'
           /\ UNCHANGED << tick, mana, towers, entities, entityCounter, snapshot, endCalls >>
     /\ lastOp'.op = "tick" =>
           /\ timers = {tickInterval}
           /\ tick' = tick + 1]_vars

\* start() has been called on a Room that was started earlier and has
\* ticked since: the start timestamp is older than the clock
C26_StartedAgainWhileRunning ==
  /\ lastOp.op = "start"
  /\ isRunning
  /\ tick > 0
  /\ startTime < now
  /\ timers = {tickInterval}

\* ------------------------------------------------------------------------
\* The Room as SocketManager.createGameRoom sets it up (socket-manager.ts)
\* ------------------------------------------------------------------------

\* the PlayerConnection createGameRoom builds for a slot
matchConnection(slot) ==
  [playerId |-> PlayerIdOf(slot), deckId |-> "deck-1", deckCards |-> mockDeck]

\* createGameRoom that binds player 1 only
createGameRoomOnePlayer ==
  /\ player1 = <<>> /\ player2 = <<>> /\ ~isRunning /\ ~stopped
  /\ player1' = IF player1 = <<>> THEN << matchConnection(1) >> ELSE player1
  /\ player2' = player2
  /\ isRunning' = TRUE
  /\ startTime' = now
  /\ tickInterval' = newTimer
  /\ timers' = timers \cup {newTimer}
  /\ lastOp' = [op |-> "start"]
  /\ emitted' = <<>>
  /\ UNCHANGED << tick, mana, towers, snapshot, entities, entityCounter, now,
                  endCalls, stopped >>

\* createGameRoom on the Room it has just constructed: addPlayer(p1Conn, 1),
\* addPlayer(p2Conn, 2), start()
createGameRoom ==
  /\ player1 = <<>> /\ player2 = <<>> /\ ~isRunning /\ ~stopped
  /\ player1' = IF player1 = <<>> THEN << matchConnection(1) >> ELSE player1
  /\ player2' = IF player2 = <<>> THEN << matchConnection(2) >> ELSE player2
  /\ isRunning' = TRUE
  /\ startTime' = now
  /\ tickInterval' = newTimer
  /\ timers' = timers \cup {newTimer}
  /\ lastOp' = [op |-> "start"]
  /\ emitted' = <<>>
  /\ UNCHANGED << tick, mana, towers, snapshot, entities, entityCounter, now,
                  endCalls, stopped >>

\* a match: set up by createGameRoom, ticked by its timer and, once the
\* Room is in the directory, played by spawn commands and stopped when the
\* server shuts down
NextMatch ==
  \/ /\ createGameRoom
     /\ UNCHANGED dirVars
  \/ /\ isReady /\ Stop
     /\ UNCHANGED dirVars
  \/ /\ \E h \in timers, dt \in TickDelays : Tick(h, dt)
     /\ UNCHANGED dirVars
  \/ /\ \E p \in Players, c \in CardIndexes, x \in SpawnXs, y \in SpawnYs :
          isReady /\ HandleSpawnRequest(p, c, x, y)
     /\ UNCHANGED dirVars

SpecMatch == Init /\ [][NextMatch]_vars

SlotBinding(slot) == IF slot = 1 THEN player1 ELSE player2

\* C28: addPlayer on a filled slot returns false, and no operation replaces
\* or removes the binding of a filled slot.
C28_FilledSlotIsKept ==
  [][/\ player1 # <<>> => player1' = player1
     /\ player2 # <<>> => player2' = player2
     /\ \A slot \in Players :
          (lastOp'.op = "addPlayer" /\ lastOp'.slot = slot /\ SlotBinding(slot) # <<>>) =>
             lastOp'.result = FALSE]_vars

\* both slots hold the same identity: addPlayer has bound player 1's
\* identity to slot 2 and has then refused another call for that slot
C28_SecondBindingRefused ==
  /\ lastOp.op = "addPlayer"
  /\ lastOp.slot = 2
  /\ lastOp.result = FALSE
  /\ player2 = << [playerId |-> PlayerIdOf(1), deckId |-> "deck-1", deckCards |-> mockDeck] >>

\* C29: a spawn request made while the Room is not running returns false,
\* is answered to the requester with GAME_NOT_RUNNING, creates no unit,
\* changes no mana and emits no ENTITY_SPAWNED.
C29_NotRunningRefused ==
  [][\A p \in Players, c \in CardIndexes, x \in SpawnXs, y \in SpawnYs :
       (HandleSpawnRequest(p, c, x, y) /\ ~isRunning) =>
          /\ lastOp'.result = FALSE
          /\ RejectedWith(emitted', p, "GAME_NOT_RUNNING")
          /\ entities' = entities
          /\ entityCounter' = entityCounter
          /\ mana' = mana
          /\ \A k \in 1..Len(emitted') : emitted'[k].type # "ENTITY_SPAWNED"]_vars

\* C30: a step emits one ENTITY_SPAWNED for each unit that enters the live
\* collection in that step and no other: it carries the unit's id, owner,
\* catalog id, max HP and spawn position, its id was never in use before, a
\* failed spawn emits none, and a GAME_TICK lists only ids that were in the
\* collection, hence announced, before the tick.
C30_SpawnedAnnouncedOnce ==
  [][/\ \A i \in 1..Len(entities') :
          entities'[i].id \notin IdsOf(entities) =>
             \E k \in 1..Len(emitted') :
                /\ emitted'[k] = [ to |-> "all", type |-> "ENTITY_SPAWNED",
                                   entity |-> [ id |-> entities'[i].id,
                                                ownerId |-> entities'[i].ownerId,
                                                unitId |-> entities'[i].unitId,
                                                maxHp |-> entities'[i].stats.maxHp,
                                                position |-> entities'[i].position ] ]
                /\ \A n \in 1..Len(emitted') :
                      (emitted'[n].type = "ENTITY_SPAWNED"
                         /\ emitted'[n].entity.id = entities'[i].id) => n = k
     /\ \A k \in 1..Len(emitted') :
          emitted'[k].type = "ENTITY_SPAWNED" =>
             /\ emitted'[k].entity.id \in IdsOf(entities') \ IdsOf(entities)
             /\ emitted'[k].entity.id
                  = EntityId(emitted'[k].entity.unitId, entityCounter + 1)
             /\ entityCounter' = entityCounter + 1
             /\ lastOp'.result = TRUE
     /\ \A k \in 1..Len(emitted') :
          emitted'[k].type = "GAME_TICK" =>
             IdsOf(emitted'[k].payload.entities) \subseteq IdsOf(entities)]_vars

\* a tick has published a GAME_TICK that lists two units, each announced
\* by its own spawn before the tick
C30_TwoAnnouncedUnitsListed ==
  /\ lastOp.op = "tick"
  /\ Len(emitted) = 1
  /\ Len(emitted[1].payload.entities) = 2
  /\ entityCounter = 2

\* ------------------------------------------------------------------------
\* Session Directory (socket-manager.ts), wire protocol (protocol.ts),
\* player store (SimpleDB)
\* ------------------------------------------------------------------------

\* connections the server accepts, Rooms it creates, units per Room
MaxClients == 3

MaxRooms == 2

MaxRoomUnits == 1

SocketId(n) == "client_" \o ToString(n)

RoomId(n) == "room_" \o ToString(n)

\* enum C2SMessageType, at the version the SocketManager dispatches on
C2SMessageType == {"QUEUE_JOIN", "QUEUE_LEAVE", "SPAWN_CARD", "LOGIN"}

\* SimpleDB seed data: the players, and the deck of each player
seedPlayers == {"hero_1", "hero_2"}

starterCards ==
  << "archer_base", "knight_base", "mage_solar", "archer_base", "knight_base",
     "mage_solar", "archer_base", "knight_base" >>

seedDecks ==
  [ deck_h1_default |-> [playerId |-> "hero_1", cards |-> starterCards],
    deck_h2_default |-> [playerId |-> "hero_2", cards |-> starterCards] ]

\* SimpleDB.getPlayer: <<>> is undefined
getPlayer(id) == IF id \in seedPlayers THEN << id >> ELSE <<>>

\* SimpleDB.getDeck: by deck id, otherwise the first deck of that player
getDeck(id) ==
  IF id \in DOMAIN seedDecks THEN << id >>
  ELSE LET own == {d \in DOMAIN seedDecks : seedDecks[d].playerId = id}
       IN  IF own = {} THEN <<>> ELSE << CHOOSE d \in own : TRUE >>

\* a frame a client sends: json is FALSE for text JSON.parse rejects, every
\* field is <<>> when the object lacks it
rawData(json, type, playerId, deckId, cardIndex, x, y) ==
  [ json |-> json, type |-> type, playerId |-> playerId, deckId |-> deckId,
    cardIndex |-> cardIndex, x |-> x, y |-> y ]

\* the frames the clients send
Frames ==
  { rawData(FALSE, <<>>, <<>>, <<>>, <<>>, <<>>, <<>>),
    rawData(TRUE, <<>>, <<>>, <<>>, <<>>, <<>>, <<>>),
    rawData(TRUE, << "PING" >>, <<>>, <<>>, <<>>, <<>>, <<>>),
    rawData(TRUE, << "LOGIN" >>, <<>>, <<>>, <<>>, <<>>, <<>>),
    rawData(TRUE, << "LOGIN" >>, << "hero_1" >>, <<>>, <<>>, <<>>, <<>>),
    rawData(TRUE, << "LOGIN" >>, << "hero_2" >>, <<>>, <<>>, <<>>, <<>>),
    rawData(TRUE, << "LOGIN" >>, << "nobody" >>, <<>>, <<>>, <<>>, <<>>),
    rawData(TRUE, << "QUEUE_JOIN" >>, <<>>, <<>>, <<>>, <<>>, <<>>),
    rawData(TRUE, << "QUEUE_LEAVE" >>, <<>>, <<>>, <<>>, <<>>, <<>>),
    rawData(TRUE, << "SPAWN_CARD" >>, <<>>, <<>>, << 0 >>, << 10 >>, << 5 >>),
    rawData(TRUE, << "SPAWN_CARD" >>, <<>>, <<>>, <<>>, << 10 >>, << 5 >>) }

\* parseC2SMessage: the error it throws, "" when it returns the message
parseC2SMessage(data) ==
  IF ~data.json THEN "Unexpected token"
  ELSE IF data.type = <<>> THEN "Invalid message format: missing type"
  ELSE IF data.type[1] \notin C2SMessageType THEN "Unknown message type"
  ELSE ""

\* an outbound message: code of an ERROR, playerIndex of a MATCH_START,
\* ownerId of an ENTITY_SPAWNED, winnerId of a MATCH_END
message(type, code, playerIndex, ownerId) ==
  [ type |-> type, code |-> code, playerIndex |-> playerIndex, ownerId |-> ownerId ]

createErrorMessage(code) == message("ERROR", code, 0, Null)

\* the state the handlers of the SocketManager work on; delivered collects
\* what the handler puts on the sockets
Directory ==
  [ clients |-> clients, socketIdCounter |-> socketIdCounter,
    matchmakingQueue |-> matchmakingQueue, rooms |-> rooms,
    roomIdCounter |-> roomIdCounter, delivered |-> <<>> ]

\* sendTo(socketId, message); from is the Room whose callback sends, Null
\* for the SocketManager itself
sendTo(d, socketId, from, msg) ==
  IF socketId \notin DOMAIN d.clients \/ ~d.clients[socketId].open THEN d
  ELSE [d EXCEPT !.delivered = Append(@, [to |-> socketId, from |-> from, msg |-> msg])]

\* this.clients.values(): insertion order is the order of the socket numbers
clientOrder(d) ==
  SelectSeq([n \in 1..d.socketIdCounter |-> SocketId(n)],
            LAMBDA s : s \in DOMAIN d.clients)

\* broadcastToRoom that sends to every connected client
broadcastToEveryone(d, roomId, msg) ==
  LET to == SelectSeq(clientOrder(d), LAMBDA s : d.clients[s].open)
  IN  [d EXCEPT !.delivered =
         @ \o [k \in 1..Len(to) |-> [to |-> to[k], from |-> roomId, msg |-> msg]]]

\* broadcastToRoom(roomId, message)
broadcastToRoom(d, roomId, msg) ==
  LET to == SelectSeq(clientOrder(d),
                      LAMBDA s : d.clients[s].roomId = roomId /\ d.clients[s].open)
  IN  [d EXCEPT !.delivered =
         @ \o [k \in 1..Len(to) |-> [to |-> to[k], from |-> roomId, msg |-> msg]]]

\* new GameRoom(roomId, config): the SocketManager sets neither initialMana
\* nor manaRegenRate, the Room takes them from DEFAULT_CONFIG
initialMana == 5

defaultManaRegenRate == 1

newGameRoom ==
  [ player1 |-> <<>>, player2 |-> <<>>, tick |-> 0,
    mana |-> [p \in Players |-> initialMana * tickRate],
    towers |-> createInitialTowers, startTime |-> 0, isRunning |-> FALSE,
    snapshot |-> <<>>, entities |-> <<>>, entityCounter |-> 0 ]

\* GameRoom.addPlayer on a Room object
roomAddPlayer(room, conn, slot) ==
  IF slot = 1 /\ room.player1 = <<>> THEN [room EXCEPT !.player1 = << conn >>]
  ELSE IF slot = 2 /\ room.player2 = <<>> THEN [room EXCEPT !.player2 = << conn >>]
  ELSE room

\* GameRoom.start on a Room object
roomStart(room, t) ==
  IF room.isRunning THEN room
  ELSE [room EXCEPT !.isRunning = TRUE, !.startTime = t]

\* GameRoom.stop on a Room object
roomStop(room) == [room EXCEPT !.isRunning = FALSE]

\* GameRoom.getPlayerIndex: 0 is null
getPlayerIndex(room, id) ==
  IF room.player1 # <<>> /\ room.player1[1].playerId = id THEN 1
  ELSE IF room.player2 # <<>> /\ room.player2[1].playerId = id THEN 2
  ELSE 0

\* GameRoom.handleSpawnRequest -> spawnUnit -> broadcastEntitySpawned on the
\* Room roomId; cardIndex is <<>> when the frame lacks it (NaN index)
roomHandleSpawnRequest(d, roomId, playerIndex, cardIndex, x, y) ==
  LET room   == d.rooms[roomId]
      unitId == IF cardIndex = <<>> THEN Undefined ELSE testUnitFor(cardIndex[1])
  IN  IF ~HasUnit(unitId) THEN d
      ELSE LET e == createEntity(EntityId(unitId, room.entityCounter + 1),
                                 OwnerId(playerIndex), unitId, x * 100, y * 100,
                                 calculateFinalStats(UNITS[unitId], <<>>), 50)
           IN  broadcastToRoom(
                 [d EXCEPT !.rooms[roomId] =
                    [room EXCEPT !.entityCounter = @ + 1, !.entities = Append(@, e)]],
                 roomId, message("ENTITY_SPAWNED", "", 0, e.ownerId))

\* handleGameEnd that leaves the clients bound to the Room it removes
handleGameEndKeepBinding(d, roomId, winnerId) ==
  IF roomId \notin DOMAIN d.rooms THEN d
  ELSE LET d1 == broadcastToRoom(d, roomId, message("MATCH_END", "", 0, winnerId))
       IN  [d1 EXCEPT
              !.rooms = [r \in DOMAIN d1.rooms \ {roomId} |-> d1.rooms[r]]]

\* handleGameEnd(roomId, winnerId, reason)
handleGameEnd(d, roomId, winnerId) ==
  IF roomId \notin DOMAIN d.rooms THEN d
  ELSE LET d1 == broadcastToRoom(d, roomId, message("MATCH_END", "", 0, winnerId))
       IN  [d1 EXCEPT
              !.clients = [s \in DOMAIN d1.clients |->
                             IF d1.clients[s].roomId = roomId
                             THEN [d1.clients[s] EXCEPT !.state = "CONNECTED",
                                                        !.roomId = Null]
                             ELSE d1.clients[s]],
              !.rooms = [r \in DOMAIN d1.rooms \ {roomId} |-> d1.rooms[r]]]

\* GameRoom.tick of the Room roomId at time t, with the callbacks the
\* SocketManager gave the Room: endGame stops the Room and calls
\* handleGameEnd, then the snapshot is taken and GAME_TICK is broadcast
roomTick(d, roomId, t) ==
  LET room  == d.rooms[roomId]
      alive == cleanupDeadEntities(
                 physicsUpdate(combatUpdate(room.entities, t), tickDuration))
      end   == checkWinCondition(room.towers, t - room.startTime)
      room1 == [room EXCEPT !.tick = @ + 1, !.mana = updateMana(@, defaultManaRegenRate),
                            !.entities = alive,
                            !.isRunning = IF end = <<>> THEN @ ELSE FALSE,
                            !.snapshot = [i \in 1..Len(alive) |-> toSnapshot(alive[i])]]
      d1    == [d EXCEPT !.rooms[roomId] = room1]
      d2    == IF end = <<>> THEN d1 ELSE handleGameEnd(d1, roomId, end[1].winnerId)
  IN  broadcastToRoom(d2, roomId, message("GAME_TICK", "", 0, Null))

\* the PlayerConnection createGameRoom builds for a client
playerConnection(client) ==
  LET cards == seedDecks[client.deck[1]].cards
  IN  [ playerId |-> client.player[1], deckId |-> client.deck[1],
        deckCards |-> [k \in 1..Len(cards) |->
                         [slotIndex |-> k - 1, baseUnitId |-> cards[k],
                          equippedItems |-> <<>>]] ]

\* createGameRoom(client1, client2) at time t; s1 and s2 are the socket ids
createGameRoomFor(d, s1, s2, t) ==
  LET roomId == RoomId(d.roomIdCounter + 1)
      c1     == d.clients[s1]
      c2     == d.clients[s2]
      room   == roomAddPlayer(roomAddPlayer(newGameRoom, playerConnection(c1), 1),
                              playerConnection(c2), 2)
      d1     == [d EXCEPT
                   !.roomIdCounter = @ + 1,
                   !.clients = [s \in DOMAIN d.clients |->
                                  IF s \in {s1, s2}
                                  THEN [d.clients[s] EXCEPT !.state = "IN_GAME",
                                                            !.roomId = roomId]
                                  ELSE d.clients[s]],
                   !.rooms = [r \in DOMAIN d.rooms \cup {roomId} |->
                                IF r = roomId THEN room ELSE d.rooms[r]]]
      d2     == sendTo(d1, s1, Null, message("MATCH_START", "", 1, Null))
      d3     == sendTo(d2, s2, Null, message("MATCH_START", "", 2, Null))
  IN  [d3 EXCEPT !.rooms[roomId] = roomStart(@, t)]

\* tryMatchmaking that pairs the two clients that joined last
tryMatchmakingNewestFirst(d, t) ==
  LET q == d.matchmakingQueue
  IN  IF Len(q) < 2 THEN d
      ELSE createGameRoomFor([d EXCEPT !.matchmakingQueue = SubSeq(q, 1, Len(q) - 2)],
                             q[Len(q)], q[Len(q) - 1], t)

\* tryMatchmaking
tryMatchmaking(d, t) ==
  LET q == d.matchmakingQueue
  IN  IF Len(q) < 2 THEN d
      ELSE LET d1 == [d EXCEPT !.matchmakingQueue = SubSeq(q, 3, Len(q))]
           IN  IF q[1] \notin DOMAIN d.clients \/ q[2] \notin DOMAIN d.clients
               THEN d1
               ELSE createGameRoomFor(d1, q[1], q[2], t)

\* handleConnection(socket)
handleConnection(d) ==
  LET socketId == SocketId(d.socketIdCounter + 1)
  IN  [d EXCEPT
         !.socketIdCounter = @ + 1,
         !.clients = [s \in DOMAIN d.clients \cup {socketId} |->
                        IF s = socketId
                        THEN [ state |-> "CONNECTED", deckId |-> "default",
                               roomId |-> Null, player |-> <<>>, deck |-> <<>>,
                               open |-> TRUE ]
                        ELSE d.clients[s]]]

\* handleLogin(socketId, playerId)
handleLogin(d, socketId, playerId) ==
  IF socketId \notin DOMAIN d.clients THEN d
  ELSE IF playerId = <<>> THEN sendTo(d, socketId, Null, createErrorMessage("INVALID_PARAMS"))
  ELSE IF getPlayer(playerId[1]) = <<>>
  THEN sendTo(d, socketId, Null, createErrorMessage("PLAYER_NOT_FOUND"))
  ELSE IF getDeck(playerId[1]) = <<>>
  THEN sendTo(d, socketId, Null, createErrorMessage("DECK_NOT_FOUND"))
  ELSE sendTo([d EXCEPT !.clients[socketId] =
                 [@ EXCEPT !.player = getPlayer(playerId[1]),
                           !.deck = getDeck(playerId[1]),
                           !.deckId = getDeck(playerId[1])[1]]],
              socketId, Null, message("LOGIN_SUCCESS", "", 0, Null))

\* handleQueueJoin(socketId, deckId)
handleQueueJoin(d, socketId, deckId, t) ==
  IF socketId \notin DOMAIN d.clients THEN d
  ELSE IF d.clients[socketId].state # "CONNECTED"
  THEN sendTo(d, socketId, Null, createErrorMessage("INVALID_STATE"))
  ELSE IF d.clients[socketId].player = <<>> \/ d.clients[socketId].deck = <<>>
  THEN sendTo(d, socketId, Null, createErrorMessage("LOGIN_REQUIRED"))
  ELSE LET d1 == [d EXCEPT
                    !.clients[socketId] =
                       [@ EXCEPT !.state = "IN_QUEUE",
                                 !.deckId = IF deckId = <<>> THEN @ ELSE deckId[1]],
                    !.matchmakingQueue = Append(@, socketId)]
       IN  tryMatchmaking(
             sendTo(d1, socketId, Null, message("QUEUE_JOINED", "", 0, Null)), t)

\* handleQueueLeave(socketId)
handleQueueLeave(d, socketId) ==
  IF socketId \notin DOMAIN d.clients THEN d
  ELSE IF d.clients[socketId].state # "IN_QUEUE"
  THEN sendTo(d, socketId, Null, createErrorMessage("INVALID_STATE"))
  ELSE [d EXCEPT
          !.matchmakingQueue = SelectSeq(@, LAMBDA id : id # socketId),
          !.clients[socketId] = [@ EXCEPT !.state = "CONNECTED"]]

\* handleSpawnCard(socketId, cardIndex, x, y)
handleSpawnCard(d, socketId, cardIndex, x, y) ==
  IF socketId \notin DOMAIN d.clients
     \/ d.clients[socketId].state # "IN_GAME"
     \/ d.clients[socketId].roomId = Null
  THEN sendTo(d, socketId, Null, createErrorMessage("NOT_IN_GAME"))
  ELSE IF d.clients[socketId].roomId \notin DOMAIN d.rooms
  THEN sendTo(d, socketId, Null, createErrorMessage("ROOM_NOT_FOUND"))
  ELSE LET roomId      == d.clients[socketId].roomId
           playerIndex == getPlayerIndex(d.rooms[roomId], d.clients[socketId].player[1])
       IN  IF playerIndex = 0
           THEN sendTo(d, socketId, Null, createErrorMessage("PLAYER_NOT_FOUND"))
           ELSE roomHandleSpawnRequest(d, roomId, playerIndex, cardIndex, x[1], y[1])

\* handleMessage(socketId, rawData) at time t
handleMessage(d, socketId, data, t) ==
  IF socketId \notin DOMAIN d.clients THEN d
  ELSE IF parseC2SMessage(data) # ""
  THEN sendTo(d, socketId, Null, createErrorMessage("PARSE_ERROR"))
  ELSE CASE data.type[1] = "LOGIN" -> handleLogin(d, socketId, data.playerId)
         [] data.type[1] = "QUEUE_JOIN" -> handleQueueJoin(d, socketId, data.deckId, t)
         [] data.type[1] = "QUEUE_LEAVE" -> handleQueueLeave(d, socketId)
         [] data.type[1] = "SPAWN_CARD" ->
              handleSpawnCard(d, socketId, data.cardIndex, data.x, data.y)
         [] OTHER -> sendTo(d, socketId, Null, createErrorMessage("UNKNOWN_TYPE"))

\* handleDisconnect that forgets the client but leaves its queue entry
handleDisconnectKeepQueued(d, socketId) ==
  IF socketId \notin DOMAIN d.clients THEN d
  ELSE [d EXCEPT
          !.clients = [s \in DOMAIN d.clients \ {socketId} |-> d.clients[s]]]

\* handleDisconnect(socketId)
handleDisconnect(d, socketId) ==
  IF socketId \notin DOMAIN d.clients THEN d
  ELSE [d EXCEPT
          !.matchmakingQueue =
             IF d.clients[socketId].state = "IN_QUEUE"
             THEN SelectSeq(@, LAMBDA id : id # socketId) ELSE @,
          !.clients = [s \in DOMAIN d.clients \ {socketId} |-> d.clients[s]]]

\* the variables of the single Room, which the SocketManager leaves alone
roomVars == << player1, player2, tick, mana, towers, startTime, isRunning,
               snapshot, tickInterval, timers, entities, entityCounter,
               endCalls, emitted, lastOp, stopped >>

\* the handler's result becomes the state of the SocketManager
Handled(d) ==
  /\ clients' = d.clients
  /\ socketIdCounter' = d.socketIdCounter
  /\ matchmakingQueue' = d.matchmakingQueue
  /\ rooms' = d.rooms
  /\ roomIdCounter' = d.roomIdCounter
  /\ delivered' = d.delivered

\* handleConnection(socket)
HandleConnection ==
  /\ listening
  /\ socketIdCounter < MaxClients
  /\ Handled(handleConnection(Directory))
  /\ lastEvent' = [op |-> "connection", roomId |-> Null]
  /\ UNCHANGED << listening, now >>
  /\ UNCHANGED roomVars

\* socket.on('message'): handleMessage(socketId, data)
HandleMessage(socketId, data) ==
  /\ socketId \in DOMAIN clients
  /\ clients[socketId].open
  /\ \E d \in {handleMessage(Directory, socketId, data, now)} :
       /\ d.roomIdCounter <= MaxRooms
       /\ \A r \in DOMAIN d.rooms : d.rooms[r].entityCounter <= MaxRoomUnits
       /\ Handled(d)
  /\ lastEvent' = [op |-> "message", roomId |-> clients[socketId].roomId]
  /\ UNCHANGED << listening, now >>
  /\ UNCHANGED roomVars

\* socket.on('close'): handleDisconnect(socketId), for a socket its client
\* closes
HandleDisconnect(socketId) ==
  /\ socketId \in DOMAIN clients
  /\ clients[socketId].open
  /\ Handled(handleDisconnect(Directory, socketId))
  /\ lastEvent' = [op |-> "disconnect", roomId |-> clients[socketId].roomId]
  /\ UNCHANGED << listening, now >>
  /\ UNCHANGED roomVars

\* the interval timer of the Room roomId fires, dt milliseconds after the
\* last event
RoomTick(roomId, dt) ==
  /\ roomId \in DOMAIN rooms
  /\ rooms[roomId].isRunning
  /\ rooms[roomId].tick < MaxTick
  /\ now' = now + dt
  /\ \E d \in {roomTick(Directory, roomId, now + dt)} : Handled(d)
  /\ lastEvent' = [op |-> "tick", roomId |-> roomId]
  /\ UNCHANGED listening
  /\ UNCHANGED roomVars

\* SocketManager.stop(): every socket is closed, every Room is stopped
StopServer ==
  /\ listening
  /\ listening' = FALSE
  /\ clients' = [s \in DOMAIN clients |-> [clients[s] EXCEPT !.open = FALSE]]
  /\ rooms' = [r \in DOMAIN rooms |-> roomStop(rooms[r])]
  /\ delivered' = <<>>
  /\ lastEvent' = [op |-> "stop", roomId |-> Null]
  /\ UNCHANGED << socketIdCounter, matchmakingQueue, roomIdCounter, now >>
  /\ UNCHANGED roomVars

\* the SocketManager creates its Rooms itself: the single Room is not used
InitServer ==
  /\ Init
  /\ mana = [p \in Players |-> initialMana * tickRate]

NextDirectory ==
  \/ HandleConnection
  \/ \E s \in DOMAIN clients, data \in Frames : HandleMessage(s, data)
  \/ \E s \in DOMAIN clients : HandleDisconnect(s)
  \/ \E r \in DOMAIN rooms : RoomTick(r, tickDuration)
  \/ StopServer

SpecDirectory == InitServer /\ [][NextDirectory]_vars

\* the structural rule of the protocol: valid JSON, a known kind, and every
\* field that kind requires
WellFormed(data) ==
  /\ data.json
  /\ data.type # <<>>
  /\ data.type[1] \in C2SMessageType
  /\ data.type[1] = "LOGIN" => data.playerId # <<>>
  /\ data.type[1] = "SPAWN_CARD" =>
       data.cardIndex # <<>> /\ data.x # <<>> /\ data.y # <<>>

\* the last event sent an ERROR to socketId
ErrorDeliveredTo(out, socketId) ==
  \E k \in DOMAIN out : out[k].to = socketId /\ out[k].msg.type = "ERROR"

MaxRegenTicks == 110

\* phase 2 of tick() on a Room that received no spawn: the tick is counted
\* and updateMana runs with the default manaRegenRate
UpdateMana ==
  /\ tick < MaxRegenTicks
  /\ entities = <<>>
  /\ tick' = tick + 1
  /\ mana' = updateMana(mana, defaultManaRegenRate)
  /\ lastOp' = [op |-> "updateMana"]
  /\ UNCHANGED << player1, player2, towers, startTime, isRunning, snapshot,
                  tickInterval, timers, entities, entityCounter, now, endCalls,
                  emitted, stopped >>
  /\ UNCHANGED dirVars

NextRegen == UpdateMana

SpecRegen == Init /\ [][NextRegen]_vars

\* C32: after k ticks without a spawn each player's mana is
\* min(10, initialMana + k * manaRegenRate / tickRate); from 5 mana at 1
\* mana per second and 20 ticks per second it is 6 after 20 ticks
C32_ManaAfterTicks ==
  /\ \E m \in InitialManas : \A p \in Players :
        mana[p] = Min(maxMana * tickRate, m * tickRate + tick * defaultManaRegenRate)
  /\ tick = tickRate =>
        \E m \in InitialManas : \A p \in Players : mana[p] = (m + 1) * tickRate

\* one second of regeneration from 5 mana
C32_SixAfterTwentyTicks ==
  /\ tick = tickRate
  /\ lastOp.op = "updateMana"
  /\ mana = [p \in Players |-> 6 * tickRate]

\* ------------------------------------------------------------------------
\* Units spawned with equipment
\* ------------------------------------------------------------------------

\* copies of one item in a loadout
MaxCopies == 8

\* item ids a card may name: the catalog and an id the catalog lacks
LoadoutItems == DOMAIN ITEMS \cup {"ghost_item"}

\* equipment lists: up to MaxCopies copies of one item, and every pair
Loadouts ==
  { [k \in 1..n |-> item] : n \in 0..MaxCopies, item \in LoadoutItems }
    \cup { << a, b >> : a \in LoadoutItems, b \in LoadoutItems }

\* spawnUnit(playerIndex, unitId, x, y, equippedItems), the public method,
\* called for the first unit of a Room
SpawnUnit(playerIndex, unitId, x, y, equippedItems) ==
  /\ entities = <<>>
  /\ spawnUnit(playerIndex, unitId, x, y, equippedItems)
  /\ lastOp' = [op |-> "spawnUnit", unitId |-> unitId,
                equippedItems |-> equippedItems]
  /\ UNCHANGED << player1, player2, tick, mana, towers, startTime, isRunning,
                  snapshot, tickInterval, timers, now, endCalls, stopped >>
  /\ UNCHANGED dirVars

NextLoadout ==
  \E p \in Players, unitId \in DOMAIN UNITS \cup {"mage_base"}, l \in Loadouts :
     SpawnUnit(p, unitId, ArenaX, 5, l)

SpecLoadout == Init /\ [][NextLoadout]_vars

\* the modifier a list of item ids adds to a stat: each catalog item counts
\* once per occurrence, an unknown id counts nothing
ModifierSum(items, field) ==
  LET occurrences(id) == Cardinality({k \in DOMAIN items : items[k] = id})
      weighted == [id \in DOMAIN ITEMS |-> occurrences(id) * ITEMS[id][field]]
  IN  weighted["sword_flame_t1"] + weighted["longbow_t2"] + weighted["steel_plate_t2"]
        + weighted["staff_ice_t1"] + weighted["shadow_relic"]

\* C33: a unit registered by a spawn has the catalog base stats plus the sum
\* of its equipment modifiers, with HP at least 1, attackSpeed at least 0.1,
\* moveSpeed at least 0.5 and range at least 0.5
C33_FinalStatsFloored ==
  (lastOp.op = "spawnUnit" /\ entities # <<>>) =>
     LET e     == entities[Len(entities)]
         base  == UNITS[lastOp.unitId]
         total(field) == base[field] + ModifierSum(lastOp.equippedItems, field)
     IN  /\ e.unitId = lastOp.unitId
         /\ e.stats.hp = Max(1, total("health"))
         /\ e.stats.maxHp = e.stats.hp
         /\ e.stats.attackSpeed = Max(1, total("attackSpeed"))
         /\ e.stats.moveSpeed = Max(50, total("moveSpeed"))
         /\ e.stats.range = Max(50, total("range"))
         /\ e.stats.hp >= 1
         /\ e.stats.attackSpeed >= 1
         /\ e.stats.moveSpeed >= 50
         /\ e.stats.range >= 50

\* a mage whose four relics take all of its 80 HP is registered with 1 HP
C33_RelicsFlooredToOneHp ==
  /\ lastOp.op = "spawnUnit"
  /\ lastOp.equippedItems = << "shadow_relic", "shadow_relic", "shadow_relic",
                               "shadow_relic" >>
  /\ entities # <<>>
  /\ entities[1].unitId = "mage_solar"
  /\ entities[1].stats.hp = 1

\* ------------------------------------------------------------------------
\* Two Rooms side by side
\* ------------------------------------------------------------------------

\* the SocketManager before the first connection
emptyDirectory ==
  [ clients |-> [s \in {} |-> Null], socketIdCounter |-> 0,
    matchmakingQueue |-> <<>>, rooms |-> [r \in {} |-> Null],
    roomIdCounter |-> 0, delivered |-> <<>> ]

\* the next event starts with nothing delivered
nextEvent(d) == [d EXCEPT !.delivered = <<>>]

\* a client connects, logs in as playerId and joins the queue at time t
arrive(d, playerId, t) ==
  LET d1 == handleConnection(nextEvent(d))
      s  == SocketId(d1.socketIdCounter)
      d2 == handleLogin(nextEvent(d1), s, << playerId >>)
  IN  handleQueueJoin(nextEvent(d2), s, <<>>, t)

\* the player ids the four clients log in with: the two players against
\* each other in both Rooms, or each player against a second session of
\* itself
TwoRoomLogins ==
  { << "hero_1", "hero_2", "hero_1", "hero_2" >>,
    << "hero_1", "hero_1", "hero_2", "hero_2" >> }

\* four clients arrived one after the other: client_1 and client_2 play in
\* room_1, client_3 and client_4 in room_2
InitTwoRooms ==
  /\ InitRoom
  /\ mana = [p \in Players |-> initialMana * tickRate]
  /\ listening = TRUE
  /\ lastEvent = [op |-> "message", roomId |-> Null]
  /\ \E ids \in TwoRoomLogins :
       \E d \in {arrive(arrive(arrive(arrive(emptyDirectory, ids[1], Epoch),
                                      ids[2], Epoch), ids[3], Epoch), ids[4], Epoch)} :
          /\ clients = d.clients
          /\ socketIdCounter = d.socketIdCounter
          /\ matchmakingQueue = d.matchmakingQueue
          /\ rooms = d.rooms
          /\ roomIdCounter = d.roomIdCounter
          /\ delivered = d.delivered

\* the frames of clients that play
SpawnFrames == {data \in Frames : data.type = << "SPAWN_CARD" >>}

\* the timers of two Rooms fire at the same instant or a period apart
TwoRoomDelays == {0, tickDuration}

NextTwoRooms ==
  \/ \E s \in DOMAIN clients, data \in SpawnFrames : HandleMessage(s, data)
  \/ \E r \in DOMAIN rooms, dt \in TwoRoomDelays : RoomTick(r, dt)
  \/ StopServer

SpecTwoRooms == InitTwoRooms /\ [][NextTwoRooms]_vars

MatchStartDelivered(out, socketId, playerIndex) ==
  \E k \in DOMAIN out :
     /\ out[k].to = socketId
     /\ out[k].msg.type = "MATCH_START"
     /\ out[k].msg.playerIndex = playerIndex

SlotType == {"weapon", "armor", "artifact"}

\* tags and slots of the catalog units
UNIT_BASES ==
  { [unitId |-> "knight_base", tags |-> {"HUMAN", "STEEL", "MELEE"},
     slots |-> [s \in SlotType |-> TRUE]],
    [unitId |-> "archer_base", tags |-> {"HUMAN", "NATURE", "RANGED"},
     slots |-> [s \in SlotType |-> TRUE]],
    [unitId |-> "mage_solar", tags |-> {"HUMAN", "SOLAR", "RANGED"},
     slots |-> [s \in SlotType |-> s # "armor"]] }

\* slot and requirements of the catalog items
ITEM_DEFS ==
  { [itemId |-> "sword_flame_t1", slot |-> "weapon",
     requirements |-> [allowedTags |-> {"HUMAN", "DEMON"},
                       forbiddenTags |-> {"WATER_ELEMENTAL", "NATURE"}]],
    [itemId |-> "longbow_t2", slot |-> "weapon",
     requirements |-> [allowedTags |-> {"RANGED"},
                       forbiddenTags |-> {"MELEE"}]],
    [itemId |-> "steel_plate_t2", slot |-> "armor",
     requirements |-> [allowedTags |-> {"HUMAN", "STEEL"},
                       forbiddenTags |-> {}]],
    [itemId |-> "staff_ice_t1", slot |-> "weapon",
     requirements |-> [allowedTags |-> {},
                       forbiddenTags |-> {"SOLAR"}]],
    [itemId |-> "shadow_relic", slot |-> "artifact",
     requirements |-> [allowedTags |-> {"VOID", "DEMON"},
                       forbiddenTags |-> {"SOLAR"}]] }

\* tags the made-up units and items are built from
EquipTags == {"HUMAN", "SOLAR", "VOID"}

\* units handed to validateEquipment: the catalog plus every unit over
\* EquipTags with any set of slots
EquipUnits ==
  UNIT_BASES \cup
  { [unitId |-> "unit_x", tags |-> t, slots |-> [s \in SlotType |-> s \in on]] :
      t \in SUBSET EquipTags, on \in SUBSET SlotType }

\* items handed to validateEquipment: the catalog plus every item over
\* EquipTags in any slot
EquipItems ==
  ITEM_DEFS \cup
  { [itemId |-> "item_x", slot |-> s,
     requirements |-> [allowedTags |-> a, forbiddenTags |-> f]] :
      s \in SlotType, a \in SUBSET EquipTags, f \in SUBSET EquipTags }

unitHasSlot(unit, slotType) == unit.slots[slotType] = TRUE

unitHasTag(unit, tag) == tag \in unit.tags

itemHasAllowedTagRequirement(item) == item.requirements.allowedTags # {}

isTagForbiddenByItem(item, tag) == tag \in item.requirements.forbiddenTags

equipmentError(code) == [isValid |-> FALSE, code |-> code]

\* the forbidden tags are looked at before the allowed ones
validateEquipmentForbiddenFirst(unit, item) ==
  IF ~unitHasSlot(unit, item.slot) THEN equipmentError("INVALID_SLOT")
  ELSE IF \E unitTag \in unit.tags : isTagForbiddenByItem(item, unitTag)
    THEN equipmentError("FORBIDDEN_TAG_CONFLICT")
  ELSE IF /\ itemHasAllowedTagRequirement(item)
          /\ ~\E tag \in item.requirements.allowedTags : unitHasTag(unit, tag)
    THEN equipmentError("MISSING_REQUIRED_TAG")
  ELSE [isValid |-> TRUE, code |-> Null]

\* rule 1 slot, rule 2 allowedTags, rule 3 forbiddenTags; the first rule that
\* fails returns
validateEquipment(unit, item) ==
  IF ~unitHasSlot(unit, item.slot) THEN equipmentError("INVALID_SLOT")
  ELSE IF /\ itemHasAllowedTagRequirement(item)
          /\ ~\E tag \in item.requirements.allowedTags : unitHasTag(unit, tag)
    THEN equipmentError("MISSING_REQUIRED_TAG")
  ELSE IF \E unitTag \in unit.tags : isTagForbiddenByItem(item, unitTag)
    THEN equipmentError("FORBIDDEN_TAG_CONFLICT")
  ELSE [isValid |-> TRUE, code |-> Null]

\* a unit and an item are picked, nothing else exists yet
InitEquipment ==
  /\ player1 = <<>>
  /\ player2 = <<>>
  /\ tick = 0
  /\ mana = [p \in Players |-> initialMana * tickRate]
  /\ towers = createInitialTowers
  /\ startTime = 0
  /\ isRunning = FALSE
  /\ snapshot = <<>>
  /\ tickInterval = 0
  /\ timers = {}
  /\ entities = <<>>
  /\ entityCounter = 0
  /\ now = Epoch
  /\ endCalls = <<>>
  /\ emitted = <<>>
  /\ stopped = FALSE
  /\ InitDirectory
  /\ \E unit \in EquipUnits, item \in EquipItems :
       lastOp = [op |-> "equip", unit |-> unit, item |-> item]

ValidateEquipment ==
  /\ lastOp.op = "equip"
  /\ lastOp' = [op |-> "validateEquipment", unit |-> lastOp.unit,
                item |-> lastOp.item,
                result |-> validateEquipment(lastOp.unit, lastOp.item)]
  /\ UNCHANGED << player1, player2, tick, mana, towers, startTime, isRunning,
                  snapshot, tickInterval, timers, entities, entityCounter, now,
                  endCalls, emitted, stopped >>
  /\ UNCHANGED dirVars

NextEquipment == ValidateEquipment

SpecEquipment == InitEquipment /\ [][NextEquipment]_vars

\* C36: validateEquipment(unit, item) is valid exactly when the unit has the
\* item's slot, the item's allowedTags are empty or the unit carries one of
\* them, and the unit carries none of the item's forbiddenTags; an invalid
\* result carries the code of the first failing check in the order
\* INVALID_SLOT, MISSING_REQUIRED_TAG, FORBIDDEN_TAG_CONFLICT.
C36_EquipmentRules ==
  lastOp.op = "validateEquipment" =>
    LET unit == lastOp.unit
        item == lastOp.item
        slotOk == unit.slots[item.slot]
        allowedOk == \/ item.requirements.allowedTags = {}
                     \/ item.requirements.allowedTags \cap unit.tags # {}
        forbiddenOk == item.requirements.forbiddenTags \cap unit.tags = {}
    IN /\ lastOp.result.isValid <=> (slotOk /\ allowedOk /\ forbiddenOk)
       /\ lastOp.result.isValid => lastOp.result.code = Null
       /\ ~lastOp.result.isValid =>
            lastOp.result.code =
              IF ~slotOk THEN "INVALID_SLOT"
              ELSE IF ~allowedOk THEN "MISSING_REQUIRED_TAG"
              ELSE "FORBIDDEN_TAG_CONFLICT"

\* the mage with the shadow relic: it lacks VOID and DEMON and carries the
\* forbidden SOLAR, and the answer is MISSING_REQUIRED_TAG
C36_MageShadowRelicMissingTag ==
  /\ lastOp.op = "validateEquipment"
  /\ lastOp.unit.unitId = "mage_solar"
  /\ lastOp.item.itemId = "shadow_relic"
  /\ lastOp.item.requirements.forbiddenTags \cap lastOp.unit.tags # {}
  /\ lastOp.result = [isValid |-> FALSE, code |-> "MISSING_REQUIRED_TAG"]

\* the slot createGameRoom gave the client: the clients arrived one after
\* the other, so client_1 and client_3 head their pairs
assignedSlot(socketId) ==
  IF socketId \in {SocketId(1), SocketId(3)} THEN 1 ELSE 2

Survives(es, k) == \E n \in 1..Len(es) : es[n].id = entities[k].id

====
